---- MODULE Spec2Model ----
(***************************************************************************)
(* Request handlers of the two assistants of the repository:               *)
(*   - the academic product (API-Agente): handler agente_consultar,        *)
(*     AgenteService, Config, UsuariosDAO/HistorialDAO, toggle handler;    *)
(*   - the health product (API-Agent): handler agente_iniciar,             *)
(*     AgenteService, Config, UsuariosDAO/MemoriaDAO.                      *)
(* Both share BaseDAO (dao/base.py), ContextoFactory                       *)
(* (contextos/base_contexto.py) and GeminiService                          *)
(* (services/gemini_service.py), the only definitions of those names.      *)
(*                                                                         *)
(* Spec       : the handlers end to end, one request in flight, with       *)
(*              store faults, provider failures and toggle requests.       *)
(* SpecUnidad : single functions applied to inputs drawn from bounded      *)
(*              sets (resolver, message list, store adapter, response).    *)
(***************************************************************************)
EXTENDS Integers, Sequences, FiniteSets, TLC

\* ------------------------------------------------------------------ bounds
MaxUuid == 1            \* uuid4 values a behaviour may generate
MaxHistorial == 6       \* longest history handed to procesar_consulta (SpecUnidad)
MaxRegistros == 3       \* longest lookback window of daily records (SpecUnidad)
MaxMemorias == 7        \* most memory records of one user (SpecUnidad)
MaxProfundidad == 2     \* deepest nesting of lists and maps in an item (SpecUnidad)
MaxInvocaciones == 2    \* handler invocations of one run (SpecRegistros)
MaxRetencion == 3       \* most records limpiar_historial_antiguo is told to keep (SpecUnidad)
MaxTurnos == 11         \* most stored summaries of the user (SpecUnidad)

\* ------------------------------------------------------- program constants
LIMITE_MENSAJE == 5000  \* agente_consultar.py:63
ULTIMOS_MENSAJES == 5   \* agente_service.py:108  historial_conversacion[-5:]
LIMITE_HISTORIAL_HANDLER == 10   \* agente_consultar.py:94  limit=10

Ausente == "<ausente>"  \* Python None / a key that is not in the dict

\* --------------------------------------------------------------- Config
\* API-Agente/config.py:29-33
ConfigAcademico_CONTEXTOS_DISPONIBLES ==
    {"MentorAcademico", "OrientadorVocacional", "Psicologo"}

\* API-Agent/config.py:27
ConfigSalud_CONTEXTOS_DISPONIBLES ==
    {"General", "Servicios", "Estadisticas", "Recetas"}

CONTEXTOS_DISPONIBLES(producto) ==
    IF producto = "academico" THEN ConfigAcademico_CONTEXTOS_DISPONIBLES
                              ELSE ConfigSalud_CONTEXTOS_DISPONIBLES

\* Config.validar_configuracion: TRUE when it returns, FALSE when it raises
\* ValueError.  entorno is the set of environment variables that are set.
validar_configuracion(producto, entorno) ==
    IF producto = "academico"
    THEN ("GEMINI_API_KEY" \in entorno) /\ ("AWS_ACCOUNT_ID" \in entorno)
    ELSE "GEMINI_API_KEY" \in entorno

Entornos == { {"GEMINI_API_KEY", "AWS_ACCOUNT_ID"},
              {"GEMINI_API_KEY"},
              {"AWS_ACCOUNT_ID"} }

\* ------------------------------------------------------------ validators
CorreosBienFormados == {"a@b.com", "c@d.com"}
Correos == {"a@b.com", "sin-arroba", Ausente}    \* the emails requests carry

\* utils/validators.py validar_email: falsy or not matching the pattern -> False
validar_email(email) == email \in CorreosBienFormados

\* variant: a validator that accepts any mode name
validar_contexto_todo(contexto) == TRUE

\* API-Agente/utils/validators.py validar_contexto
validar_contexto(contexto) == contexto \in ConfigAcademico_CONTEXTOS_DISPONIBLES

\* Messages are tokens with the two lengths the handlers look at.
Mensajes == {Ausente, "   ", "hola", "largo"}
len(m) == CASE m = ""      -> 0
            [] m = "   "   -> 3
            [] m = "hola"  -> 4
            [] m = "largo" -> LIMITE_MENSAJE + 1
            [] OTHER       -> 0
len_strip(m) == IF m = "   " THEN 0 ELSE len(m)
\* Python truthiness of an optional string: None and "" are falsy
falsy(s) == s = Ausente \/ s = ""

\* API-Agente/utils/validators.py validar_request_agente, for a body without
\* 'historial': the fields its list of errors names, one error at most per
\* field.  No handler calls it.
validar_request_agente(correo, contexto, mensaje) ==
    (IF falsy(correo) \/ ~validar_email(correo) THEN {"correo"} ELSE {})
    \cup (IF falsy(contexto) \/ contexto \notin ConfigAcademico_CONTEXTOS_DISPONIBLES
          THEN {"contexto"} ELSE {})
    \cup (IF falsy(mensaje) \/ len(mensaje) < 1 \/ len(mensaje) > LIMITE_MENSAJE
          THEN {"mensaje"} ELSE {})

\* ------------------------------------------------------ context resolver
\* contextos/base_contexto.py:175-189 ContextoFactory._lazy_load_contextos
ContextoFactory_contextos == {"General", "Servicios", "Estadisticas", "Recetas"}

\* get_tablas_requeridas of every Context class of the repository
get_tablas_requeridas(nombre) ==
    CASE nombre = "General"      -> <<"usuarios", "recetas", "memoria", "historial">>
      [] nombre = "Servicios"    -> <<"usuarios", "memoria", "servicios">>
      [] nombre = "Estadisticas" -> <<"usuarios", "memoria", "historial">>
      [] nombre = "Recetas"      -> <<"usuarios", "memoria", "historial", "recetas">>
      [] nombre = "MentorAcademico" ->
             <<"usuarios", "datos_academicos", "historial", "tareas">>
      [] nombre = "OrientadorVocacional" ->
             <<"usuarios", "datos_academicos", "datos_socioeconomicos", "historial">>
      [] nombre = "Psicologo" ->
             <<"usuarios", "datos_academicos", "datos_emocionales",
               "datos_socioeconomicos", "historial">>
      [] OTHER -> <<>>

\* DAOs the constructor of a Context acquires from DAOFactory
\* (BaseContexto.__init__ plus the subclass __init__)
daos_del_contexto(nombre) ==
    {"usuarios", "memoria"} \cup
    CASE nombre = "General"      -> {"recetas", "historial"}
      [] nombre = "Servicios"    -> {"servicios"}
      [] nombre = "Estadisticas" -> {"historial"}
      [] nombre = "Recetas"      -> {"recetas", "historial"}
      [] OTHER -> {}

\* ContextoFactory.get_contexto: the exception it raises ("ninguna" when it
\* returns), the Context it constructed, that Context's tables and the DAOs
\* its constructor acquired.
get_contexto(nombre) ==
    IF nombre \notin ContextoFactory_contextos
    THEN [exc |-> "ValueError", contexto |-> Ausente, tablas |-> <<>>, daos |-> {}]
    ELSE [exc |-> "ninguna", contexto |-> nombre,
          tablas |-> get_tablas_requeridas(nombre),
          daos |-> daos_del_contexto(nombre)]

SinResolver == [exc |-> "sin_resolver", contexto |-> Ausente, tablas |-> <<>>, daos |-> {}]

\* ---------------------------------------------------------- record store
\* A table is the sequence of its items in store-native order.  An optional
\* value (Optional[...] in the source) is a sequence of length 0 or 1.
Ninguno == <<>>
Algun(x) == <<x>>

\* Key schemas (partition key, sort key) of the tables
KeyUsuario      == [hash |-> "id", range |-> "correo"]
KeyUsuarioSalud == [hash |-> "correo", range |-> Ausente]
KeyHistorial    == [hash |-> "usuarioId", range |-> "id"]
KeyMemoria      == [hash |-> "correo", range |-> "context_id"]

_has_sort_key(schema) == schema.range # Ausente

\* the positions of the items whose attribute campo has the value valor
Indices(items, campo, valor) == {i \in 1..Len(items) : items[i][campo] = valor}

RECURSIVE Filtrar(_, _)
\* the items of a sequence whose index is in idx, in their order
Filtrar(items, idx) ==
    IF items = <<>> THEN <<>>
    ELSE LET n == Len(items)
             resto == Filtrar(SubSeq(items, 1, n - 1), idx)
         IN IF n \in idx THEN Append(resto, items[n]) ELSE resto

CoincideClave(item, schema, pk, sk) ==
    /\ item[schema.hash] = pk
    /\ _has_sort_key(schema) => (sk # Ninguno /\ item[schema.range] = sk[1])

\* The store's own operations (boto3 Table).  falla = the call raises.
\* GetItem: a key that lacks the sort key of the table is a ValidationException.
table_get_item(items, schema, pk, sk, falla) ==
    IF falla \/ (_has_sort_key(schema) /\ sk = Ninguno)
    THEN [excepcion |-> TRUE, item |-> Ninguno]
    ELSE LET idx == {i \in 1..Len(items) : CoincideClave(items[i], schema, pk, sk)}
         IN [excepcion |-> FALSE,
             item |-> IF idx = {} THEN Ninguno
                      ELSE Algun(items[CHOOSE i \in idx : TRUE])]

\* PutItem replaces the item with the same primary key, or adds the item.
table_put_item(items, schema, item, falla) ==
    IF falla THEN [excepcion |-> TRUE, items |-> items]
    ELSE LET idx == {i \in 1..Len(items) :
                      CoincideClave(items[i], schema, item[schema.hash],
                                    IF _has_sort_key(schema)
                                    THEN Algun(item[schema.range]) ELSE Ninguno)}
         IN [excepcion |-> FALSE,
             items |-> IF idx = {} THEN Append(items, item)
                       ELSE [i \in 1..Len(items) |->
                               IF i \in idx THEN item ELSE items[i]]]

table_delete_item(items, schema, pk, sk, falla) ==
    IF falla \/ (_has_sort_key(schema) /\ sk = Ninguno)
    THEN [excepcion |-> TRUE, items |-> items]
    ELSE LET idx == {i \in 1..Len(items) : CoincideClave(items[i], schema, pk, sk)}
         IN [excepcion |-> FALSE,
             items |-> Filtrar(items, (1..Len(items)) \ idx)]

RECURSIVE Ordenar(_, _, _)
\* items sorted by the numeric attribute campo, ascending or descending
Ordenar(items, campo, ascendente) ==
    IF items = <<>> THEN <<>>
    ELSE LET n == Len(items)
             m == CHOOSE i \in 1..n :
                    \A j \in 1..n :
                       IF ascendente THEN items[i][campo] <= items[j][campo]
                                     ELSE items[i][campo] >= items[j][campo]
         IN <<items[m]>> \o Ordenar(Filtrar(items, (1..n) \ {m}), campo, ascendente)

Primeros(s, n) == SubSeq(s, 1, IF n < Len(s) THEN n ELSE Len(s))

\* Query: the items of one partition in sort-key order, at most Limit of them
\* (limit = 0: no Limit parameter).
table_query(items, schema, pk, limit, scan_index_forward, falla) ==
    IF falla THEN [excepcion |-> TRUE, items |-> <<>>]
    ELSE LET part == Filtrar(items, Indices(items, schema.hash, pk))
             ord  == Ordenar(part, schema.range, scan_index_forward)
         IN [excepcion |-> FALSE,
             items |-> IF limit = 0 THEN ord ELSE Primeros(ord, limit)]

\* Scan: one page.  Limit bounds the items EVALUATED (before the filter);
\* LastEvaluatedKey is present while items remain after the page.
\* desde = number of items already evaluated (ExclusiveStartKey).
table_scan(items, limit, filtro, desde, falla) ==
    IF falla THEN [excepcion |-> TRUE, items |-> <<>>, ultimo |-> 0, hay_mas |-> FALSE]
    ELSE LET hasta == IF limit = 0 \/ desde + limit > Len(items)
                      THEN Len(items) ELSE desde + limit
             pagina == SubSeq(items, desde + 1, hasta)
         IN [excepcion |-> FALSE,
             items |-> Filtrar(pagina, Indices(pagina, filtro.campo, filtro.valor)),
             ultimo |-> hasta,
             hay_mas |-> hasta < Len(items)]

\* ---- BaseDAO (dao/base.py): every operation is one try/except Exception
\* Result: raised = an exception reached the caller; valor = what it returned.

\* variant: get_by_key without its except clause
get_by_key_propaga(items, schema, partition_key, sort_key, falla) ==
    LET sk == IF sort_key # Ninguno /\ _has_sort_key(schema) THEN sort_key ELSE Ninguno
        r  == table_get_item(items, schema, partition_key, sk, falla)
    IN IF r.excepcion THEN [raised |-> TRUE, valor |-> Ninguno]
       ELSE [raised |-> FALSE, valor |-> r.item]

get_by_key(items, schema, partition_key, sort_key, falla) ==
    LET sk == IF sort_key # Ninguno /\ _has_sort_key(schema) THEN sort_key ELSE Ninguno
        r  == table_get_item(items, schema, partition_key, sk, falla)
    IN IF r.excepcion THEN [raised |-> FALSE, valor |-> Ninguno]
       ELSE [raised |-> FALSE, valor |-> r.item]

query_by_partition(items, schema, partition_value, limit, scan_index_forward, falla) ==
    LET r == table_query(items, schema, partition_value, limit, scan_index_forward, falla)
    IN IF r.excepcion THEN [raised |-> FALSE, valor |-> <<>>]
       ELSE [raised |-> FALSE, valor |-> r.items]

RECURSIVE scan_paginas(_, _, _, _, _, _)
\* the pagination loop of scan_all, lines 106-113; fallas = the start offsets
\* of the pages whose scan call raises
scan_paginas(items, limit, filtro, acumulado, desde, fallas) ==
    LET r == table_scan(items, limit, filtro, desde, desde \in fallas)
    IN IF r.excepcion THEN [excepcion |-> TRUE, items |-> <<>>]
       ELSE LET acc == acumulado \o r.items
            IN IF r.hay_mas /\ (limit = 0 \/ Len(acc) < limit)
               THEN scan_paginas(items, limit, filtro, acc, r.ultimo, fallas)
               ELSE [excepcion |-> FALSE, items |-> acc]

scan_all(items, limit, filtro, fallas) ==
    LET r == scan_paginas(items, limit, filtro, <<>>, 0, fallas)
    IN IF r.excepcion THEN [raised |-> FALSE, valor |-> <<>>]
       ELSE [raised |-> FALSE, valor |-> r.items]

put_item(items, schema, item, falla) ==
    LET r == table_put_item(items, schema, item, falla)
    IN IF r.excepcion THEN [raised |-> FALSE, valor |-> FALSE, items |-> items]
       ELSE [raised |-> FALSE, valor |-> TRUE, items |-> r.items]

delete_item(items, schema, partition_key, sort_key, falla) ==
    LET sk == IF sort_key # Ninguno /\ _has_sort_key(schema) THEN sort_key ELSE Ninguno
        r  == table_delete_item(items, schema, partition_key, sk, falla)
    IN IF r.excepcion THEN [raised |-> FALSE, valor |-> FALSE, items |-> items]
       ELSE [raised |-> FALSE, valor |-> TRUE, items |-> r.items]

\* ------------------------------------------------------- domain DAOs
\* API-Agente/dao/usuarios_dao.py get_usuario_por_correo: scan_all(filter, limit=1)
get_usuario_por_correo(items, correo, fallas) ==
    LET response == scan_all(items, 1, [campo |-> "correo", valor |-> correo], fallas).valor
    IN IF response # <<>> THEN Algun(response[1]) ELSE Ninguno

\* variant: a lookup that falls back to the identity of the token
get_usuario_o_token(items, correo, falla) ==
    LET g == get_by_key(items, KeyUsuarioSalud, correo, Ninguno, falla).valor
    IN IF g # Ninguno THEN g ELSE Algun([correo |-> correo, nombre |-> "Usuario"])

\* API-Agent/dao/usuarios_dao.py get_usuario: get_by_key(correo)
get_usuario(items, correo, falla) ==
    get_by_key(items, KeyUsuarioSalud, correo, Ninguno, falla).valor

\* API-Agente/dao/historial_dao.py get_historial_usuario: a new UsuariosDAO
\* looks the user up again, then the partition is read newest sort key first
get_historial_usuario(usrs, hist, correo, limit, fallas_scan, falla_query) ==
    LET usuario == get_usuario_por_correo(usrs, correo, fallas_scan)
    IN IF usuario = Ninguno THEN <<>>
       ELSE query_by_partition(hist, KeyHistorial, usuario[1].id,
                               limit, FALSE, falla_query).valor

\* HistorialDAO.agregar_interaccion: the three fields are required
agregar_interaccion(hist, registro, falla) ==
    IF ~({"usuarioId", "id", "texto"} \subseteq DOMAIN registro)
    THEN [raised |-> FALSE, valor |-> FALSE, items |-> hist]
    ELSE put_item(hist, KeyHistorial, registro, falla)

\* API-Agent/dao/memoria_dao.py guardar_memoria
guardar_memoria(mem, registro, falla) == put_item(mem, KeyMemoria, registro, falla)

\* UsuariosDAO.actualizar_usuario: the four fields are required
actualizar_usuario(usrs, usuario, falla) ==
    IF ~({"id", "correo", "contrasena", "autorizacion"} \subseteq DOMAIN usuario)
    THEN [raised |-> FALSE, valor |-> FALSE, items |-> usrs]
    ELSE put_item(usrs, KeyUsuario, usuario, falla)

RECURSIVE eliminar_registros(_, _, _, _, _)
\* the delete loop of limpiar_historial_antiguo, lines 129-133; fallas = the
\* ids whose delete call raises (BaseDAO.delete_item then returns False)
eliminar_registros(hist, usuario_id, registros, eliminados, fallas) ==
    IF registros = <<>> THEN [valor |-> eliminados, items |-> hist]
    ELSE LET d == delete_item(hist, KeyHistorial, usuario_id,
                              Algun(registros[1].id), registros[1].id \in fallas)
         IN eliminar_registros(d.items, usuario_id, Tail(registros),
                               IF d.valor THEN eliminados + 1 ELSE eliminados, fallas)

\* HistorialDAO.limpiar_historial_antiguo: the whole partition, highest sort
\* key first; what follows the first mantener_ultimos is deleted
limpiar_historial_antiguo(hist, usuario_id, mantener_ultimos, falla_query, fallas) ==
    LET historial_completo ==
            query_by_partition(hist, KeyHistorial, usuario_id, 0, FALSE, falla_query).valor
    IN IF Len(historial_completo) <= mantener_ultimos
       THEN [valor |-> 0, items |-> hist]
       ELSE eliminar_registros(hist, usuario_id,
                               SubSeq(historial_completo, mantener_ultimos + 1,
                                      Len(historial_completo)),
                               0, fallas)

\* variant: usuario.get('autorizacion', True)
autorizado_por_omision(usuario) == usuario.autorizacion # "false"

\* usuario.get('autorizacion', False) as a truth value
autorizado(usuario) == usuario.autorizacion = "true"

\* ------------------------------------------------------- uuid generation
\* uuid.uuid4() never repeats a value; hex8 is .hex[:8], the leading digits.
Uuids == 1..(MaxUuid + 1)
hex8(u) == (u + 1) \div 2

\* ------------------------------------------------------ completion client
GEMINI_FALLBACK == "Lo siento, estoy experimentando dificultades tecnicas"
Proveedor == {"ok", "error"}

\* variant: generar_respuesta without its except clause
generar_respuesta_propaga(mensajes, proveedor) ==
    IF proveedor = "ok"
    THEN [raised |-> FALSE, texto |-> "respuesta-del-modelo", intentos |-> 1]
    ELSE [raised |-> TRUE, texto |-> Ausente, intentos |-> 1]

\* GeminiService.generar_respuesta: one generate_content call inside try/except
generar_respuesta(mensajes, proveedor) ==
    IF proveedor = "ok"
    THEN [raised |-> FALSE, texto |-> "respuesta-del-modelo", intentos |-> 1]
    ELSE [raised |-> FALSE, texto |-> GEMINI_FALLBACK, intentos |-> 1]

\* ------------------------------------------------- AgenteService helpers
\* variant: historial_conversacion[:5]
Ultimos_desde_inicio(s, n) == SubSeq(s, 1, IF Len(s) > n THEN n ELSE Len(s))

\* s[-n:]
Ultimos(s, n) == SubSeq(s, IF Len(s) > n THEN Len(s) - n + 1 ELSE 1, Len(s))

\* msg.get('role', defecto)
rol_de(msg, defecto) == IF msg.role = Ausente THEN defecto ELSE msg.role

\* procesar_consulta, "Construir mensajes para Gemini": the system prompt,
\* historial_conversacion[-5:], the new user message
construir_mensajes(prompt_sistema, historial_conversacion, mensaje_usuario, rol_defecto) ==
    LET previos == IF historial_conversacion # <<>>
                   THEN Ultimos(historial_conversacion, ULTIMOS_MENSAJES) ELSE <<>>
    IN <<[role |-> "system", content |-> prompt_sistema]>>
       \o [i \in 1..Len(previos) |->
             [role |-> rol_de(previos[i], rol_defecto), content |-> previos[i].content]]
       \o <<[role |-> "user", content |-> mensaje_usuario]>>

rol_por_defecto(producto) == IF producto = "academico" THEN "assistant" ELSE "user"

\* agente_consultar.py:98-103: every stored summary becomes an assistant turn
conversacion_previa(historial_previo) ==
    [i \in 1..Len(historial_previo) |->
        [role |-> "assistant", content |-> historial_previo[i].texto]]

\* ---------------------------------------------------------- responses
\* utils/formatters.py.  modos = the mode names the detail text lists.
formatear_respuesta_error(codigo, mensaje, modos) ==
    [statusCode |-> codigo, error |-> TRUE, mensaje |-> mensaje, modos |-> modos,
     respuesta |-> Ausente, historial_guardado |-> Ausente]

formatear_respuesta_exitosa(respuesta, historial_guardado) ==
    [statusCode |-> 200, error |-> FALSE, mensaje |-> Ausente, modos |-> {},
     respuesta |-> respuesta, historial_guardado |-> historial_guardado]

SinRespuesta ==
    [statusCode |-> 0, error |-> FALSE, mensaje |-> Ausente, modos |-> {},
     respuesta |-> Ausente, historial_guardado |-> Ausente]

booleano(b) == IF b THEN "true" ELSE "false"

\* DAOFactory._get_dao_map of the academic product (dao/base.py:246-265)
DAOFactory_dao_map ==
    {"usuarios", "datos_academicos", "datos_emocionales",
     "datos_socioeconomicos", "historial", "tareas"}

\* DAO registry of the health product (its dao/base.py is not in the tree;
\* these are the DAOs its services, contexts and handlers ask for)
DAOFactory_dao_map_salud ==
    {"usuarios", "memoria", "historial", "recetas", "servicios"}

dao_map(producto) ==
    IF producto = "academico" THEN DAOFactory_dao_map ELSE DAOFactory_dao_map_salud

\* ContextoFactory.get_contexto(nombre) as called by procesar_consulta of a
\* product: cls._contextos[nombre]() runs the constructors, whose
\* DAOFactory.get_dao raises ValueError for a DAO type that is not registered.
resolver_contexto(producto, nombre) ==
    LET r == get_contexto(nombre)
    IN IF r.exc = "ninguna" /\ ~(r.daos \subseteq dao_map(producto))
       THEN [exc |-> "ValueError", contexto |-> Ausente, tablas |-> <<>>,
             daos |-> r.daos \cap dao_map(producto)]
       ELSE r

\* ================================================================= state
VARIABLES
    usuarios,        \* table Usuario of the academic product
    usuarios_salud,  \* table usuarios of the health product
    historial,       \* table Historial (academic InteractionRecords)
    memoria,         \* table memoria_contextual (health InteractionRecords)
    entorno,         \* environment variables that are set
    usados,          \* uuid4 values generated so far
    req,             \* the query request in flight
    unidad,          \* SpecUnidad: the function applied and its result
    tablas,          \* tables Tareas, DatosAcademicos, DatosEmocionales, DatosSocioeconomicos
    bitacora,        \* SpecRegistros: the handlers invoked so far, with their status
    procesos         \* SpecConcurrencia: the requests in flight on the Users table

vars == <<usuarios, usuarios_salud, historial, memoria, entorno, usados, req, unidad,
          tablas, bitacora, procesos>>

Handlers == {"agente_consultar", "agente_iniciar"}
producto_de(h) == IF h = "agente_consultar" THEN "academico" ELSE "salud"

\* the mode names requests carry
ContextosPedidos ==
    {"MentorAcademico", "Psicologo", "General", "Estadisticas", "NotARealMode", Ausente}

\* agente_consultar.py:53 and agente_iniciar.py:65: the modes the 400 body lists
MODOS_DETALLE_CONSULTAR == {"MentorAcademico", "OrientadorVocacional", "Psicologo"}
contextos_validos == {"General", "Servicios", "Estadisticas", "Recetas"}

\* the tables the query handlers never touch
KeyDatos == [hash |-> "usuarioId", range |-> "id"]
TablasVacias ==
    [tareas |-> <<>>, datos_academicos |-> <<>>, datos_emocionales |-> <<>>,
     datos_socioeconomicos |-> <<>>]

UsuarioA(aut) == [id |-> "u1", correo |-> "a@b.com", contrasena |-> "hash",
                  autorizacion |-> aut]
UsuarioC == [id |-> "u2", correo |-> "c@d.com", contrasena |-> "hash",
             autorizacion |-> "true"]
UsuariosIniciales == {<<UsuarioC>>, <<UsuarioA("ausente")>>, <<UsuarioC, UsuarioA("true")>>}

RegistroPrevio == [usuarioId |-> "u1", id |-> 0, texto |-> "resumen previo"]
MemoriaPrevia == [correo |-> "a@b.com", context_id |-> 0, fecha |-> 0,
                  resumen_conversacion |-> <<"hola", "respuesta-del-modelo">>,
                  intencion_detectada |-> "consulta_general"]

Libre ==
    [pc |-> "libre", handler |-> Ausente, cuerpo |-> "json", correo |-> Ausente,
     contexto |-> Ausente, mensaje |-> Ausente, usuario |-> Ninguno,
     conversacion |-> <<>>, resolucion |-> SinResolver, mensajes |-> <<>>,
     respuesta_agente |-> Ausente, respuesta |-> SinRespuesta,
     proveedor |-> Ausente, llamadas |-> 0, traza |-> <<>>, falla |-> FALSE,
     historial0 |-> <<>>, memoria0 |-> <<>>]

SinUnidad == [fn |-> "ninguna", fase |-> "ninguna"]
SinProcesos == [tabla0 |-> <<>>, de |-> <<>>]

Init ==
    /\ usuarios \in UsuariosIniciales
    /\ usuarios_salud \in {<<>>, <<[correo |-> "a@b.com", nombre |-> "Ana"]>>}
    /\ \E previos \in BOOLEAN :
          /\ historial = IF previos THEN <<RegistroPrevio>> ELSE <<>>
          /\ memoria = IF previos THEN <<MemoriaPrevia>> ELSE <<>>
    /\ entorno \in Entornos
    /\ usados = {}
    /\ req = Libre
    /\ unidad = SinUnidad
    /\ tablas = TablasVacias
    /\ bitacora = <<>>
    /\ procesos = SinProcesos

Terminar(r, resp) == [r EXCEPT !.pc = "fin", !.respuesta = resp]

\* a request arrives at one of the two query handlers
Recibir ==
    /\ req.pc = "libre"
    /\ Cardinality(usados) < MaxUuid
    /\ \E h \in Handlers, cuerpo \in {"json", "malformado"}, correo \in Correos,
          contexto \in ContextosPedidos, mensaje \in Mensajes :
          \* a body that does not parse carries no fields
          /\ cuerpo = "malformado" =>
                /\ contexto = Ausente /\ mensaje = Ausente
                /\ h = "agente_consultar" => correo = Ausente
          /\ req' = [Libre EXCEPT !.pc = "inicio", !.handler = h, !.cuerpo = cuerpo,
                               !.correo = correo, !.contexto = contexto,
                               !.mensaje = mensaje,
                               !.historial0 = historial, !.memoria0 = memoria]
    /\ UNCHANGED <<tablas, bitacora, procesos>>
    /\ UNCHANGED <<usuarios, usuarios_salud, historial, memoria, entorno, usados,
                   unidad>>

\* agente_consultar.py:33-68: parse the body, validate correo, contexto, mensaje
validar_consulta(r) ==
    IF r.cuerpo = "malformado"
    THEN Terminar(r, formatear_respuesta_error(400, "JSON invalido", {}))
    ELSE IF falsy(r.correo) \/ ~validar_email(r.correo)
    THEN Terminar(r, formatear_respuesta_error(400, "Email invalido", {}))
    ELSE IF falsy(r.contexto) \/ ~validar_contexto(r.contexto)
    THEN Terminar(r, formatear_respuesta_error(400, "Contexto invalido",
                                               MODOS_DETALLE_CONSULTAR))
    ELSE IF falsy(r.mensaje) \/ len_strip(r.mensaje) = 0
    THEN Terminar(r, formatear_respuesta_error(400, "Mensaje requerido", {}))
    ELSE IF len(r.mensaje) > LIMITE_MENSAJE
    THEN Terminar(r, formatear_respuesta_error(400, "Mensaje muy largo", {}))
    ELSE [r EXCEPT !.pc = "buscar_usuario", !.traza = Append(@, "validado")]

Validar ==
    /\ req.pc = "inicio" /\ req.handler = "agente_consultar"
    /\ req' = validar_consulta(req)
    /\ UNCHANGED <<tablas, bitacora, procesos>>
    /\ UNCHANGED <<usuarios, usuarios_salud, historial, memoria, entorno, usados,
                   unidad>>

\* the fault patterns of one scan_all: no page fails, or one page does
FallasScan(items) ==
    {{}} \cup {{o} : o \in 0..(IF Len(items) = 0 THEN 0 ELSE Len(items) - 1)}

scan_fallo(items, correo, fallas) ==
    scan_paginas(items, 1, [campo |-> "correo", valor |-> correo], <<>>, 0, fallas).excepcion

\* agente_consultar.py:70-90: user lookup, 404, authorization gate, 403
buscar_usuario(r, usrs, fallas) ==
    LET usuario == get_usuario_por_correo(usrs, r.correo, fallas)
        r1 == [r EXCEPT !.traza = Append(@, "store"),
                        !.falla = @ \/ scan_fallo(usrs, r.correo, fallas)]
    IN IF usuario = Ninguno
       THEN Terminar(r1, formatear_respuesta_error(404, "Usuario no encontrado", {}))
       ELSE IF ~autorizado(usuario[1])
       THEN Terminar([r1 EXCEPT !.usuario = usuario],
                     formatear_respuesta_error(403, "Autorizacion requerida", {}))
       ELSE [r1 EXCEPT !.pc = "cargar_historial", !.usuario = usuario]

BuscarUsuario ==
    /\ req.pc = "buscar_usuario"
    /\ \E fallas \in FallasScan(usuarios) : req' = buscar_usuario(req, usuarios, fallas)
    /\ UNCHANGED <<tablas, bitacora, procesos>>
    /\ UNCHANGED <<usuarios, usuarios_salud, historial, memoria, entorno, usados,
                   unidad>>

\* agente_consultar.py:92-112 up to the first store access of
\* procesar_consulta: load the history, build conversacion_previa, construct
\* AgenteService (GeminiService.__init__ validates the configuration) and
\* run the mode check of procesar_consulta (agente_service.py:65).
cargar_historial(r, usrs, hist, env, fallas, falla_query) ==
    LET previo == get_historial_usuario(usrs, hist, r.correo,
                                        LIMITE_HISTORIAL_HANDLER, fallas, falla_query)
        r1 == [r EXCEPT !.conversacion = conversacion_previa(previo),
                        !.traza = @ \o <<"store", "store">>,
                        !.falla = @ \/ falla_query
                                    \/ scan_fallo(usrs, r.correo, fallas)]
    IN IF ~validar_configuracion("academico", env)
       THEN \* ValueError -> except ValueError
            Terminar(r1, formatear_respuesta_error(400, "Error de validacion", {}))
       ELSE IF r.contexto \notin CONTEXTOS_DISPONIBLES("academico")
       THEN \* ContextoInvalidoError -> except Exception
            Terminar(r1, formatear_respuesta_error(500, "Error interno del servidor", {}))
       ELSE [r1 EXCEPT !.pc = "svc_usuario"]

CargarHistorial ==
    /\ req.pc = "cargar_historial"
    /\ \E fallas \in FallasScan(usuarios), falla_query \in BOOLEAN :
          req' = cargar_historial(req, usuarios, historial, entorno, fallas, falla_query)
    /\ UNCHANGED <<tablas, bitacora, procesos>>
    /\ UNCHANGED <<usuarios, usuarios_salud, historial, memoria, entorno, usados,
                   unidad>>

\* AuthService.get_user_from_token: None without a usable token or when the
\* store read raises; otherwise a dict, from the table or from the token.
\* r.correo is the email of the token (Ausente: no token / not decodable).
get_user_from_token(correo, usrs, falla) ==
    IF falsy(correo) THEN Ninguno
    ELSE LET g == table_get_item(usrs, KeyUsuarioSalud, correo, Ninguno, falla)
         IN IF g.excepcion THEN Ninguno
            ELSE IF g.item # Ninguno
                 THEN Algun([correo |-> g.item[1].correo, nombre |-> g.item[1].nombre])
                 ELSE Algun([correo |-> correo, nombre |-> "Usuario"])

\* variant: a handler that does not look whether the body has a mensaje
autenticar_sin_mensaje(r, usrs, env, falla) ==
    LET usuario == get_user_from_token(r.correo, usrs, falla)
        r1 == [r EXCEPT !.traza = IF falsy(r.correo) THEN @ ELSE Append(@, "store"),
                        !.falla = @ \/ (~falsy(r.correo) /\ falla)]
        contexto == IF r.contexto = Ausente THEN "General" ELSE r.contexto
    IN IF usuario = Ninguno
       THEN Terminar(r1, formatear_respuesta_error(401, "No autorizado", {}))
       ELSE IF r.cuerpo = "malformado"
       THEN Terminar(r1, formatear_respuesta_error(400, "JSON invalido", {}))
       ELSE IF contexto \notin contextos_validos
       THEN Terminar(r1, formatear_respuesta_error(400, "Contexto invalido",
                                                   contextos_validos))
       ELSE IF ~validar_configuracion("salud", env)
       THEN \* ValueError in get_agente_service -> except Exception
            Terminar([r1 EXCEPT !.traza = Append(@, "validado")],
                     formatear_respuesta_error(500, "Error interno del servidor", {}))
       ELSE IF contexto \notin CONTEXTOS_DISPONIBLES("salud")
       THEN \* ContextoInvalidoError -> except ContextoInvalidoError
            Terminar([r1 EXCEPT !.traza = Append(@, "validado")],
                     formatear_respuesta_error(400, "Contexto invalido",
                                               CONTEXTOS_DISPONIBLES("salud")))
       ELSE [r1 EXCEPT !.pc = "svc_usuario", !.contexto = contexto,
                       !.correo = usuario[1].correo,
                       !.traza = Append(@, "validado")]

\* agente_iniciar.py:37-81 up to the first store access of procesar_consulta
autenticar(r, usrs, env, falla) ==
    LET usuario == get_user_from_token(r.correo, usrs, falla)
        r1 == [r EXCEPT !.traza = IF falsy(r.correo) THEN @ ELSE Append(@, "store"),
                        !.falla = @ \/ (~falsy(r.correo) /\ falla)]
        contexto == IF r.contexto = Ausente THEN "General" ELSE r.contexto
    IN IF usuario = Ninguno
       THEN Terminar(r1, formatear_respuesta_error(401, "No autorizado", {}))
       ELSE IF r.cuerpo = "malformado"
       THEN Terminar(r1, formatear_respuesta_error(400, "JSON invalido", {}))
       ELSE IF falsy(r.mensaje)
       THEN Terminar(r1, formatear_respuesta_error(400, "Campo requerido", {}))
       ELSE IF contexto \notin contextos_validos
       THEN Terminar(r1, formatear_respuesta_error(400, "Contexto invalido",
                                                   contextos_validos))
       ELSE IF ~validar_configuracion("salud", env)
       THEN \* ValueError in get_agente_service -> except Exception
            Terminar([r1 EXCEPT !.traza = Append(@, "validado")],
                     formatear_respuesta_error(500, "Error interno del servidor", {}))
       ELSE IF contexto \notin CONTEXTOS_DISPONIBLES("salud")
       THEN \* ContextoInvalidoError -> except ContextoInvalidoError
            Terminar([r1 EXCEPT !.traza = Append(@, "validado")],
                     formatear_respuesta_error(400, "Contexto invalido",
                                               CONTEXTOS_DISPONIBLES("salud")))
       ELSE [r1 EXCEPT !.pc = "svc_usuario", !.contexto = contexto,
                       !.correo = usuario[1].correo,
                       !.traza = Append(@, "validado")]

Autenticar ==
    /\ req.pc = "inicio" /\ req.handler = "agente_iniciar"
    /\ \E falla \in BOOLEAN : req' = autenticar(req, usuarios_salud, entorno, falla)
    /\ UNCHANGED <<tablas, bitacora, procesos>>
    /\ UNCHANGED <<usuarios, usuarios_salud, historial, memoria, entorno, usados,
                   unidad>>

\* what each handler answers when procesar_consulta raises
respuesta_excepcion(h, exc) ==
    IF h = "agente_consultar"
    THEN IF exc = "ValueError"
         THEN formatear_respuesta_error(400, "Error de validacion", {})
         ELSE formatear_respuesta_error(500, "Error interno del servidor", {})
    ELSE CASE exc = "UsuarioNoEncontradoError" ->
                formatear_respuesta_error(404, "Usuario no encontrado", {})
           [] exc = "ContextoInvalidoError" ->
                formatear_respuesta_error(400, "Contexto invalido",
                                          CONTEXTOS_DISPONIBLES("salud"))
           [] OTHER ->
                formatear_respuesta_error(500, "Error interno del servidor", {})

\* procesar_consulta from the user lookup to the message list:
\* API-Agente/services/agente_service.py:71-118, API-Agent/...:54-92
servicio_usuario(r, usuario, falla_lookup, falla_ctx) ==
    LET prod == producto_de(r.handler)
        r1 == [r EXCEPT !.traza = Append(@, "store"), !.falla = @ \/ falla_lookup]
    IN IF usuario = Ninguno
       THEN Terminar(r1, respuesta_excepcion(r.handler, "UsuarioNoEncontradoError"))
       ELSE IF prod = "academico" /\ ~autorizado(usuario[1])
       THEN Terminar(r1, respuesta_excepcion(r.handler, "AutorizacionRequeridaError"))
       ELSE LET res == resolver_contexto(prod, r.contexto)
                r2 == [r1 EXCEPT !.resolucion = res]
            IN IF res.exc # "ninguna"
               THEN Terminar(r2, respuesta_excepcion(r.handler, res.exc))
               ELSE \* build_context_data reads one table per required table
                    [r2 EXCEPT !.pc = "completar",
                               !.traza = @ \o [i \in 1..Len(res.tablas) |-> "store"],
                               !.falla = @ \/ falla_ctx,
                               !.mensajes = construir_mensajes("prompt_sistema",
                                               r.conversacion, r.mensaje,
                                               rol_por_defecto(prod))]

ServicioUsuario ==
    /\ req.pc = "svc_usuario"
    /\ \E fallas \in FallasScan(usuarios), falla \in BOOLEAN, falla_ctx \in BOOLEAN :
          req' = IF req.handler = "agente_consultar"
                 THEN servicio_usuario(req,
                         get_usuario_por_correo(usuarios, req.correo, fallas),
                         scan_fallo(usuarios, req.correo, fallas), falla_ctx)
                 ELSE servicio_usuario(req,
                         get_usuario(usuarios_salud, req.correo, falla),
                         falla, falla_ctx)
    /\ UNCHANGED <<tablas, bitacora, procesos>>
    /\ UNCHANGED <<usuarios, usuarios_salud, historial, memoria, entorno, usados,
                   unidad>>

\* procesar_consulta: the completion call and the result it returns; nothing
\* between the client and the handler catches what the client raises
completar(r, proveedor) ==
    LET g == generar_respuesta(r.mensajes, proveedor)
        r1 == [r EXCEPT !.proveedor = proveedor,
                        !.llamadas = @ + g.intentos,
                        !.traza = @ \o [i \in 1..g.intentos |-> "llm"],
                        !.falla = @ \/ proveedor = "error"]
    IN IF g.raised
       THEN Terminar(r1, respuesta_excepcion(r.handler, "Exception"))
       ELSE [r1 EXCEPT !.pc = "guardar", !.respuesta_agente = g.texto]

Completar ==
    /\ req.pc = "completar"
    /\ \E proveedor \in Proveedor : req' = completar(req, proveedor)
    /\ UNCHANGED <<tablas, bitacora, procesos>>
    /\ UNCHANGED <<usuarios, usuarios_salud, historial, memoria, entorno, usados,
                   unidad>>

\* AgenteService.generar_resumen_interaccion (API-Agente, lines 134-194): one
\* completion call; the except branch builds the template from the message
generar_resumen_interaccion(mensaje_usuario, respuesta_agente, contexto, proveedor) ==
    LET g == generar_respuesta(<<[role |-> "user", content |-> "prompt_resumen"]>>,
                               proveedor)
    IN [texto |-> IF g.raised THEN "plantilla-del-mensaje" ELSE g.texto,
        intentos |-> g.intentos]

\* variant: a handler that answers 500 when the history write fails
guardar_consulta_estricto(r, hist, u, proveedor, falla) ==
    LET resumen == generar_resumen_interaccion(r.mensaje, r.respuesta_agente,
                                               r.contexto, proveedor)
        w == agregar_interaccion(hist, [usuarioId |-> r.usuario[1].id, id |-> u,
                                        texto |-> resumen.texto], falla)
    IN [req |-> Terminar(r, IF w.valor
                            THEN formatear_respuesta_exitosa(r.respuesta_agente, "true")
                            ELSE formatear_respuesta_error(500,
                                     "Error interno del servidor", {})),
        items |-> w.items]

\* agente_consultar.py:114-143: summary, history record, write, response
guardar_consulta(r, hist, u, proveedor, falla) ==
    LET resumen == generar_resumen_interaccion(r.mensaje, r.respuesta_agente,
                                               r.contexto, proveedor)
        registro_historial == [usuarioId |-> r.usuario[1].id, id |-> u,
                               texto |-> resumen.texto]
        w == agregar_interaccion(hist, registro_historial, falla)
        exito_guardado == w.valor
    IN [req |-> Terminar([r EXCEPT !.llamadas = @ + resumen.intentos,
                                   !.traza = @ \o [i \in 1..resumen.intentos |-> "llm"]
                                               \o <<"put">>,
                                   !.falla = @ \/ falla \/ proveedor = "error"],
                         formatear_respuesta_exitosa(r.respuesta_agente,
                                                     booleano(exito_guardado))),
        items |-> w.items]

\* AgenteService.guardar_memoria_conversacion (API-Agent, lines 108-144)
guardar_memoria_conversacion(mem, correo, mensaje_usuario, respuesta_agente, u, fecha, falla) ==
    guardar_memoria(mem,
        [correo |-> correo, context_id |-> hex8(u), fecha |-> fecha,
         resumen_conversacion |-> <<mensaje_usuario, respuesta_agente>>,
         intencion_detectada |-> "consulta_general"],
        falla)

\* agente_iniciar.py:83-91: save the memory, ignore the result, answer
guardar_inicio(r, mem, u, fecha, falla) ==
    LET w == guardar_memoria_conversacion(mem, r.correo, r.mensaje,
                                          r.respuesta_agente, u, fecha, falla)
    IN [req |-> Terminar([r EXCEPT !.traza = Append(@, "put"),
                                   !.falla = @ \/ falla],
                         formatear_respuesta_exitosa(r.respuesta_agente, Ausente)),
        items |-> w.items]

Guardar ==
    /\ req.pc = "guardar"
    /\ \E u \in Uuids \ usados, proveedor \in Proveedor, falla \in BOOLEAN :
          /\ usados' = usados \cup {u}
          /\ IF req.handler = "agente_consultar"
             THEN LET g == guardar_consulta(req, historial, u, proveedor, falla)
                  IN req' = g.req /\ historial' = g.items /\ memoria' = memoria
             ELSE LET g == guardar_inicio(req, memoria, u, Cardinality(usados) + 1, falla)
                  IN req' = g.req /\ memoria' = g.items /\ historial' = historial
    /\ UNCHANGED <<tablas, bitacora, procesos>>
    /\ UNCHANGED <<usuarios, usuarios_salud, entorno, unidad>>

\* variant: a toggle that writes an item made of the four required fields
toggle_autorizacion_cuatro_campos(usrs, cuerpo, correo, autorizacion, fallas, falla_put) ==
    IF cuerpo = "malformado" THEN [status |-> 400, items |-> usrs]
    ELSE IF falsy(correo) \/ ~validar_email(correo) THEN [status |-> 400, items |-> usrs]
    ELSE IF autorizacion \notin {"true", "false"} THEN [status |-> 400, items |-> usrs]
    ELSE LET usuario == get_usuario_por_correo(usrs, correo, fallas)
         IN IF usuario = Ninguno THEN [status |-> 404, items |-> usrs]
            ELSE LET w == actualizar_usuario(usrs,
                              [id |-> usuario[1].id, correo |-> usuario[1].correo,
                               contrasena |-> usuario[1].contrasena,
                               autorizacion |-> autorizacion],
                              falla_put)
                 IN IF ~w.valor THEN [status |-> 500, items |-> usrs]
                    ELSE [status |-> 200, items |-> w.items]

\* toggle_autorizacion.py handler, lines 28-105
toggle_autorizacion(usrs, cuerpo, correo, autorizacion, fallas, falla_put) ==
    IF cuerpo = "malformado" THEN [status |-> 400, items |-> usrs]
    ELSE IF falsy(correo) \/ ~validar_email(correo) THEN [status |-> 400, items |-> usrs]
    ELSE IF autorizacion \notin {"true", "false"} THEN [status |-> 400, items |-> usrs]
    ELSE LET usuario == get_usuario_por_correo(usrs, correo, fallas)
         IN IF usuario = Ninguno THEN [status |-> 404, items |-> usrs]
            ELSE LET w == actualizar_usuario(usrs,
                              [usuario[1] EXCEPT !.autorizacion = autorizacion],
                              falla_put)
                 IN IF ~w.valor THEN [status |-> 500, items |-> usrs]
                    ELSE [status |-> 200, items |-> w.items]

ToggleAutorizacion ==
    /\ \E cuerpo \in {"json", "malformado"}, correo \in Correos,
          autorizacion \in {"true", "false", Ausente},
          fallas \in FallasScan(usuarios), falla_put \in BOOLEAN :
          \* a body that does not parse carries no fields; a request that
          \* fails validation reaches no store call that could fail
          /\ cuerpo = "malformado" => (correo = Ausente /\ autorizacion = Ausente)
          /\ (cuerpo = "malformado" \/ ~validar_email(correo) \/ autorizacion = Ausente)
                => (fallas = {} /\ ~falla_put)
          /\ LET t == toggle_autorizacion(usuarios, cuerpo, correo, autorizacion,
                                          fallas, falla_put)
             IN usuarios' = t.items
    /\ UNCHANGED <<tablas, bitacora, procesos>>
    /\ UNCHANGED <<usuarios_salud, historial, memoria, entorno, usados, req, unidad>>

\* the handler returns its response; the instance is free for the next request
Responder ==
    /\ req.pc = "fin"
    /\ req' = Libre
    /\ UNCHANGED <<tablas, bitacora, procesos>>
    /\ UNCHANGED <<usuarios, usuarios_salud, historial, memoria, entorno, usados,
                   unidad>>

Next ==
    \/ Recibir
    \/ Responder
    \/ Validar
    \/ BuscarUsuario
    \/ CargarHistorial
    \/ Autenticar
    \/ ServicioUsuario
    \/ Completar
    \/ Guardar
    \/ ToggleAutorizacion

Spec == Init /\ [][Next]_vars

\* ===================================================== statistics mode
\* A daily record: the metric values of its wearables and sensores maps,
\* each an optional number (Ninguno: the key is missing or None).
RegistroDiario(wp, sp, ws, ss, fc) ==
    [w_pasos |-> wp, s_pasos |-> sp, w_sueno |-> ws, s_sueno |-> ss, w_fc |-> fc]

\* Python truth value of an optional number: None and 0 are falsy
verdadero(o) == o # Ninguno /\ o[1] # 0
\* a or b
o_bien(a, b) == IF verdadero(a) THEN a ELSE b

RECURSIVE sum(_)
sum(l) == IF l = <<>> THEN 0 ELSE l[1] + sum(Tail(l))
max(l) == CHOOSE x \in {l[i] : i \in 1..Len(l)} : \A i \in 1..Len(l) : l[i] <= x
min(l) == CHOOSE x \in {l[i] : i \in 1..Len(l)} : \A i \in 1..Len(l) : x <= l[i]

RECURSIVE recolectar(_, _, _)
\* the loop of _calcular_estadisticas for one metric: x_list after the loop
recolectar(ventana, w, s) ==
    IF ventana = <<>> THEN <<>>
    ELSE LET registro == ventana[1]
             x == IF s = Ausente THEN registro[w] ELSE o_bien(registro[w], registro[s])
             resto == recolectar(Tail(ventana), w, s)
         IN IF verdadero(x) THEN <<x[1]>> \o resto ELSE resto

\* sum(l) / len(l) as the fraction <<numerator, denominator>>; the literal 0
\* of the else branches is <<0, 1>>
promedio(l) == IF l # <<>> THEN <<sum(l), Len(l)>> ELSE <<0, 1>>

\* EstadisticasContexto._calcular_estadisticas; {} is Ninguno
_calcular_estadisticas(ventana) ==
    IF ventana = <<>> THEN Ninguno
    ELSE LET pasos_list == recolectar(ventana, "w_pasos", "s_pasos")
             sueno_list == recolectar(ventana, "w_sueno", "s_sueno")
             fc_list    == recolectar(ventana, "w_fc", Ausente)
         IN Algun([total_registros |-> Len(ventana),
                   pasos_promedio |-> promedio(pasos_list),
                   pasos_max |-> IF pasos_list # <<>> THEN max(pasos_list) ELSE 0,
                   pasos_min |-> IF pasos_list # <<>> THEN min(pasos_list) ELSE 0,
                   sueno_promedio |-> promedio(sueno_list),
                   sueno_max |-> IF sueno_list # <<>> THEN max(sueno_list) ELSE 0,
                   sueno_min |-> IF sueno_list # <<>> THEN min(sueno_list) ELSE 0,
                   fc_promedio |-> IF fc_list # <<>> THEN promedio(fc_list)
                                   ELSE Ninguno])

\* A rendered section: per metric the values it shows (Ninguno: the metric
\* has no line), and the "no data" sentence when that is all it says.
SeccionSinDatos ==
    [sin_datos |-> TRUE, pasos |-> Ninguno, sueno |-> Ninguno, fc |-> Ninguno]

\* EstadisticasContexto._formatear_datos_contexto: the template prints every
\* line; fc_promedio is in the dict, so .get(..., 'N/A') yields its None
formatear_estadisticas_contexto(estadisticas) ==
    IF estadisticas = Ninguno THEN SeccionSinDatos
    ELSE LET e == estadisticas[1]
         IN [sin_datos |-> FALSE,
             pasos |-> Algun(<<e.pasos_promedio, e.pasos_max, e.pasos_min>>),
             sueno |-> Algun(<<e.sueno_promedio, e.sueno_max, e.sueno_min>>),
             fc |-> Algun(e.fc_promedio)]

\* EstadisticasPrompt._formatear_datos_contexto (src/prompts): a block per
\* metric only when its mean is > 0
formatear_estadisticas_prompt(estadisticas, ventana) ==
    IF estadisticas = Ninguno /\ ventana = <<>> THEN SeccionSinDatos
    ELSE IF estadisticas = Ninguno
    THEN [SeccionSinDatos EXCEPT !.sin_datos = FALSE]
    ELSE LET e == estadisticas[1]
         IN [sin_datos |-> FALSE,
             pasos |-> IF e.pasos_promedio[1] > 0
                       THEN Algun(<<e.pasos_promedio, e.pasos_max, e.pasos_min>>)
                       ELSE Ninguno,
             sueno |-> IF e.sueno_promedio[1] > 0
                       THEN Algun(<<e.sueno_promedio, e.sueno_max, e.sueno_min>>)
                       ELSE Ninguno,
             fc |-> IF e.fc_promedio # Ninguno /\ e.fc_promedio[1] # 0
                    THEN Algun(e.fc_promedio) ELSE Ninguno]

\* ===================================================== recent interactions
LIMITE_MEMORIA == 10        \* Config.LIMITE_MEMORIA
MEMORIAS_EN_PROMPT == 5     \* memoria[:5], historial[:5]
TEXTO_MAXIMO == 150         \* item.get('texto', ...)[:150]

\* MemoriaDAO.get_memoria_reciente; limite = 0: no limite argument
get_memoria_reciente(mem, correo, limite, falla) ==
    query_by_partition(mem, KeyMemoria, correo,
                       IF limite = 0 THEN LIMITE_MEMORIA ELSE limite,
                       FALSE, falla).valor

\* BaseContexto._formatear_memoria: one entry per rendered record, with the
\* length of the summary it prints
_formatear_memoria(memoria_) ==
    IF memoria_ = <<>> THEN [sin_datos |-> TRUE, entradas |-> <<>>]
    ELSE LET primeras == Primeros(memoria_, MEMORIAS_EN_PROMPT)
         IN [sin_datos |-> FALSE,
             entradas |-> [idx \in 1..Len(primeras) |->
                             [context_id |-> primeras[idx].context_id,
                              fecha |-> primeras[idx].fecha,
                              largo |-> primeras[idx].largo]]]

\* s[:n] on the length of s
recortar(largo, n) == IF largo < n THEN largo ELSE n

\* BasePrompt._formatear_historial (API-Agente/promts): "" is an empty
\* section; each text is cut to 150 characters and followed by "..."
_formatear_historial(historial_) ==
    LET primeras == Primeros(historial_, MEMORIAS_EN_PROMPT)
    IN [vacia |-> historial_ = <<>>,
        entradas |-> [idx \in 1..Len(primeras) |->
                        [context_id |-> primeras[idx].context_id,
                         fecha |-> primeras[idx].fecha,
                         largo |-> recortar(primeras[idx].largo, TEXTO_MAXIMO) + 3]]]

\* ===================================================== context sections
\* What a renderer makes of one data group: its data ("datos"), an explicit
\* "No hay ..." sentence ("sin_datos"), or nothing at all ("omitida").
\* datos is the set of the groups of the context data that are non-empty.
seccion(datos, grupo, si_falta) == IF grupo \in datos THEN "datos" ELSE si_falta

mentor_formatear_datos_contexto(datos) ==
    [datos_academicos |-> seccion(datos, "datos_academicos", "sin_datos"),
     tareas |-> seccion(datos, "tareas", "sin_datos")]

orientador_formatear_datos_contexto(datos) ==
    [datos_academicos |-> seccion(datos, "datos_academicos", "sin_datos"),
     datos_socioeconomicos |-> seccion(datos, "datos_socioeconomicos", "sin_datos")]

\* the academic block has no else branch
psicologo_formatear_datos_contexto(datos) ==
    [datos_emocionales |-> seccion(datos, "datos_emocionales", "sin_datos"),
     datos_academicos |-> seccion(datos, "datos_academicos", "omitida"),
     datos_socioeconomicos |-> seccion(datos, "datos_socioeconomicos", "sin_datos")]

general_formatear_datos_contexto(datos) ==
    [recetas |-> seccion(datos, "recetas", "sin_datos"),
     historial_reciente |-> seccion(datos, "historial_reciente", "sin_datos")]

recetas_formatear_datos_contexto(datos) ==
    [recetas |-> seccion(datos, "recetas", "sin_datos")]

servicios_formatear_datos_contexto(datos) ==
    [servicios |-> seccion(datos, "servicios", "sin_datos")]

\* the Statistics section says "No hay suficientes datos" for an empty dict
estadisticas_formatear_datos_contexto(datos) ==
    [estadisticas |-> seccion(datos, "estadisticas", "sin_datos")]

\* the _formatear_datos_contexto of the Context class of each mode
_formatear_datos_contexto(modo, datos) ==
    CASE modo = "MentorAcademico"      -> mentor_formatear_datos_contexto(datos)
      [] modo = "OrientadorVocacional" -> orientador_formatear_datos_contexto(datos)
      [] modo = "Psicologo"            -> psicologo_formatear_datos_contexto(datos)
      [] modo = "General"              -> general_formatear_datos_contexto(datos)
      [] modo = "Recetas"              -> recetas_formatear_datos_contexto(datos)
      [] modo = "Servicios"            -> servicios_formatear_datos_contexto(datos)
      [] modo = "Estadisticas"         -> estadisticas_formatear_datos_contexto(datos)

\* BaseContexto.get_prompt_instructions: the three sections under their
\* fixed headings
get_prompt_instructions(modo, usuario, memoria_, datos) ==
    [usuario |-> IF usuario = Ninguno THEN "sin_datos" ELSE "datos",
     memoria |-> IF _formatear_memoria(memoria_).sin_datos THEN "sin_datos"
                 ELSE "datos",
     datos |-> _formatear_datos_contexto(modo, datos)]

\* BasePrompt.get_prompt_completo (src/prompts): filter(None, ...) drops the
\* memory component when the list is empty
get_prompt_completo_memoria(memoria_) ==
    IF memoria_ = <<>> THEN "omitida" ELSE "datos"

\* ===================================================== number encoding
\* A number is [tipo, alto, bajo, dec]: its Python type ("int", "float",
\* "Decimal") and its value (alto * 2^30 + bajo) / 10^dec, two limbs so that
\* integers beyond the precision of a float are values of the model.
Limbo == 2 ^ 30
MANTISA == 53               \* bits of precision of a Python float
Numero(tipo, alto, bajo, dec) ==
    [clase |-> "num", tipo |-> tipo, alto |-> alto, bajo |-> bajo, dec |-> dec]

RECURSIVE bit_length(_)
bit_length(n) == IF n = 0 THEN 0 ELSE 1 + bit_length(n \div 2)

\* float(d) of an integral Decimal: the nearest float, ties to even
float_de_entero(alto, bajo) ==
    LET largo == IF alto = 0 THEN bit_length(bajo) ELSE 30 + bit_length(alto)
    IN IF largo <= MANTISA THEN <<alto, bajo>>
       ELSE LET q == 2 ^ (largo - MANTISA)
                r == bajo % q
                base == bajo - r
                sube == 2 * r > q \/ (2 * r = q /\ (base \div q) % 2 = 1)
                b == IF sube THEN base + q ELSE base
            IN IF b = Limbo THEN <<alto + 1, 0>> ELSE <<alto, b>>

\* float(d) of a Decimal.  A Decimal with a fraction has at most 10 digits
\* here (alto = 0), and a float holds 15 decimal digits exactly.
float(d) ==
    IF d.dec = 0
    THEN LET f == float_de_entero(d.alto, d.bajo)
         IN Numero("float", f[1], f[2], 0)
    ELSE Numero("float", d.alto, d.bajo, d.dec)

\* Decimal(str(f)): str gives the shortest digits that read back as f
Decimal_str(f) == Numero("Decimal", f.alto, f.bajo, f.dec)

RECURSIVE _float_to_decimal(_)
_float_to_decimal(obj) ==
    CASE obj.clase = "list" ->
           [obj EXCEPT !.items = [i \in DOMAIN obj.items |->
                                     _float_to_decimal(obj.items[i])]]
      [] obj.clase = "dict" -> [obj EXCEPT !.valor = _float_to_decimal(obj.valor)]
      [] obj.clase = "num" /\ obj.tipo = "float" -> Decimal_str(obj)
      [] OTHER -> obj

RECURSIVE _decimal_to_float_plano(_)
\* variant: _decimal_to_float without its list branch
_decimal_to_float_plano(obj) ==
    CASE obj.clase = "dict" ->
           [obj EXCEPT !.valor = _decimal_to_float_plano(obj.valor)]
      [] obj.clase = "num" /\ obj.tipo = "Decimal" -> float(obj)
      [] OTHER -> obj

RECURSIVE _decimal_to_float(_)
_decimal_to_float(obj) ==
    CASE obj.clase = "list" ->
           [obj EXCEPT !.items = [i \in DOMAIN obj.items |->
                                     _decimal_to_float(obj.items[i])]]
      [] obj.clase = "dict" -> [obj EXCEPT !.valor = _decimal_to_float(obj.valor)]
      [] obj.clase = "num" /\ obj.tipo = "Decimal" -> float(obj)
      [] OTHER -> obj

RECURSIVE serializable(_)
\* the table accepts int and Decimal as its number type and rejects a float
serializable(obj) ==
    CASE obj.clase = "list" ->
           \A i \in DOMAIN obj.items : serializable(obj.items[i])
      [] obj.clase = "dict" -> serializable(obj.valor)
      [] obj.clase = "num" -> obj.tipo # "float"
      [] OTHER -> TRUE

RECURSIVE deserializar(_)
\* every number of a stored item is handed back as a Decimal
deserializar(obj) ==
    CASE obj.clase = "list" ->
           [obj EXCEPT !.items = [i \in DOMAIN obj.items |->
                                     deserializar(obj.items[i])]]
      [] obj.clase = "dict" -> [obj EXCEPT !.valor = deserializar(obj.valor)]
      [] obj.clase = "num" -> [obj EXCEPT !.tipo = "Decimal"]
      [] OTHER -> obj

\* put_item(item) followed by get_by_key of the same key, on the field valor
\* of the item: what put_item returned and what get_by_key returned
escribir_y_leer(valor) ==
    LET convertido == _float_to_decimal(valor)
    IN IF ~serializable(convertido)
       THEN [escrito |-> FALSE, leido |-> Ninguno]
       ELSE [escrito |-> TRUE,
             leido |-> Algun(_decimal_to_float(deserializar(convertido)))]

\* ============================================================ SpecUnidad
\* One function of the source applied to one input.  unidad holds the input
\* (fase "entrada") and then the input with the result (fase "salida").

\* every mode name of the repository, and names that are no mode
NombresContexto ==
    ConfigAcademico_CONTEXTOS_DISPONIBLES \cup ConfigSalud_CONTEXTOS_DISPONIBLES
    \cup {"NotARealMode", "general", ""}

Turno(i) == <<"t1", "t2", "t3", "t4", "t5", "t6", "t7", "t8", "t9">>[i]

\* histories handed to procesar_consulta: n turns; the role of a turn is
\* given, or missing (msg.get('role', ...) then supplies the default)
Historiales ==
    UNION {{[i \in 1..n |->
               [role |-> CASE patron = "alterna" ->
                                  IF i % 2 = 1 THEN "user" ELSE "assistant"
                           [] patron = "sin_rol" -> Ausente
                           [] OTHER -> IF i % 2 = 1 THEN Ausente ELSE "assistant",
                content |-> Turno(i)]] :
            patron \in {"alterna", "sin_rol", "mixto"}} : n \in 0..MaxHistorial}

Registro(i) == [usuarioId |-> "u1", id |-> i, texto |-> "resumen"]
TablasUnidad == {<<>>, <<Registro(0)>>, <<Registro(1), Registro(0)>>,
                 <<Registro(0), Registro(1), [Registro(0) EXCEPT !.usuarioId = "u9"]>>}
ClavesParticion == {"u1", "u7"}
ClavesOrden == {Ninguno, Algun(0), Algun(1)}

\* the daily records the lookback window is drawn from
RegistrosDiarios ==
    { RegistroDiario(Algun(100), Ninguno, Algun(8), Ninguno, Algun(60)),
      RegistroDiario(Algun(200), Ninguno, Algun(6), Ninguno, Ninguno),
      RegistroDiario(Algun(300), Ninguno, Ninguno, Ninguno, Ninguno),
      RegistroDiario(Algun(0), Ninguno, Algun(0), Ninguno, Ninguno),
      RegistroDiario(Ninguno, Algun(200), Ninguno, Algun(7), Ninguno),
      RegistroDiario(Algun(0), Algun(300), Ninguno, Ninguno, Algun(70)),
      RegistroDiario(Ninguno, Ninguno, Ninguno, Ninguno, Ninguno) }

Ventanas == UNION {[1..n -> RegistrosDiarios] : n \in 0..MaxRegistros}

\* the memory records of one user: context_id is the sort key; fecha follows
\* the order of the keys or runs against it (agregar_memoria takes both from
\* the body, the agent draws the key at random)
Memorias(n, orden, largo) ==
    [i \in 1..n |-> [correo |-> "a@b.com", context_id |-> i,
                     fecha |-> IF orden = "creciente" THEN i ELSE n + 1 - i,
                     largo |-> largo]]

\* the modes that have a Context class, and the data groups of each
ModosConContexto ==
    {"MentorAcademico", "OrientadorVocacional", "Psicologo", "General",
     "Recetas", "Servicios", "Estadisticas"}
Grupos(modo) == DOMAIN _formatear_datos_contexto(modo, {})

\* the numbers written: small and large integers, floats with and without
\* a fraction, around 2^53 and 2^54
NumerosEscritos ==
    { Numero("int", 0, 5, 0), Numero("float", 0, 1, 1), Numero("float", 0, 25, 1),
      Numero("float", 0, 100, 0),
      Numero("int", 2 ^ 23, 0, 0), Numero("int", 2 ^ 23, 1, 0),
      Numero("int", 2 ^ 23, 3, 0), Numero("float", 2 ^ 23, 2, 0),
      Numero("int", 2 ^ 24 - 1, Limbo - 1, 0) }

RECURSIVE Valores(_)
\* the values of nesting depth up to d
Valores(d) ==
    IF d = 0 THEN NumerosEscritos \cup {[clase |-> "str"]}
    ELSE LET v == Valores(d - 1)
         IN v \cup {[clase |-> "list", items |-> <<x>>] : x \in v}
              \cup {[clase |-> "dict", valor |-> x] : x \in v}

\* a request that has reached the save step of its handler
ReqEnGuardar(h, respuesta_agente) ==
    [Libre EXCEPT !.pc = "guardar", !.handler = h, !.correo = "a@b.com",
                  !.contexto = IF h = "agente_consultar" THEN "MentorAcademico"
                               ELSE "General",
                  !.mensaje = "hola", !.usuario = Algun(UsuarioA("true")),
                  !.respuesta_agente = respuesta_agente, !.llamadas = 1]

\* a request for which procesar_consulta has built its message list
ReqEnCompletar(h) ==
    [Libre EXCEPT !.pc = "completar", !.handler = h, !.correo = "a@b.com",
                  !.contexto = IF h = "agente_consultar" THEN "MentorAcademico"
                               ELSE "General",
                  !.mensaje = "hola", !.usuario = Algun(UsuarioA("true")),
                  !.mensajes = construir_mensajes("prompt_sistema", <<>>, "hola",
                                                  rol_por_defecto(producto_de(h)))]

\* Historial tables in the order their records were written: up to
\* MaxRetencion records of u1 with distinct ids, after one of another user or not
TablasRetencion ==
    LET ids == 0..(MaxRetencion - 1)
        suyos == UNION {{t \in [1..n -> ids] : \A i, j \in 1..n : i # j => t[i] # t[j]} :
                        n \in 0..MaxRetencion}
    IN UNION {{[i \in 1..Len(t) |-> Registro(t[i])],
               <<[Registro(0) EXCEPT !.usuarioId = "u9"]>>
                  \o [i \in 1..Len(t) |-> Registro(t[i])]} : t \in suyos}

\* the summaries stored for u1, one per record, told apart by their text
Resumen(i) == <<"r1", "r2", "r3", "r4", "r5", "r6", "r7", "r8", "r9", "r10", "r11",
                "r12", "r13">>[i]
\* a Historial table of n records of u1 in the order they were written; the
\* ids, uuid4 values, follow that order or run against it
TablaDeTurnos(n, orden) ==
    [i \in 1..n |-> [usuarioId |-> "u1",
                     id |-> IF orden = "creciente" THEN i ELSE n + 1 - i,
                     texto |-> Resumen(i)]]

EntradasUnidad ==
    [fn : {"turnos_previos"}, fase : {"entrada"}, n : 0..MaxTurnos,
     orden : {"creciente", "decreciente"}]
    \cup
    [fn : {"limpiar_historial_antiguo"}, fase : {"entrada"}, items : TablasRetencion,
     mantener_ultimos : 0..(MaxRetencion - 1), falla_query : BOOLEAN,
     fallas : {{}, {0}}]
    \cup
    [fn : {"get_contexto"}, fase : {"entrada"},
     producto : {"academico", "salud"}, nombre : NombresContexto]
    \cup
    [fn : {"construir_mensajes"}, fase : {"entrada"},
     historial_conversacion : Historiales, mensaje_usuario : {"hola", "largo"},
     producto : {"academico", "salud"}]
    \cup
    [fn : {"get_by_key", "delete_item"}, fase : {"entrada"}, items : TablasUnidad,
     pk : ClavesParticion, sk : ClavesOrden, falla : BOOLEAN]
    \cup
    [fn : {"query_by_partition"}, fase : {"entrada"}, items : TablasUnidad,
     pk : ClavesParticion, limit : {0, 1}, scan_index_forward : BOOLEAN,
     falla : BOOLEAN]
    \cup
    UNION {[fn : {"scan_all"}, fase : {"entrada"}, items : {t},
            pk : ClavesParticion, limit : {0, 1}, fallas : FallasScan(t)] :
           t \in TablasUnidad}
    \cup
    [fn : {"put_item"}, fase : {"entrada"}, items : TablasUnidad,
     item : {Registro(0), Registro(2)}, falla : BOOLEAN]
    \cup
    [fn : {"_calcular_estadisticas"}, fase : {"entrada"}, historial : Ventanas]
    \cup
    [fn : {"_formatear_memoria"}, fase : {"entrada"},
     tabla : {Memorias(n, orden, largo) : n \in 0..MaxMemorias,
                                          orden \in {"creciente", "decreciente"},
                                          largo \in {40, 400}}]
    \cup
    UNION {[fn : {"get_prompt_instructions"}, fase : {"entrada"}, modo : {modo},
            datos : SUBSET Grupos(modo),
            memoria : {Memorias(n, "creciente", 40) : n \in 0..1}]
           : modo \in ModosConContexto}
    \cup
    [fn : {"escribir_y_leer"}, fase : {"entrada"}, valor : Valores(MaxProfundidad)]
    \cup
    [fn : {"completar"}, fase : {"entrada"}, handler : Handlers,
     proveedor : Proveedor, proveedor_resumen : Proveedor, u : Uuids,
     falla : BOOLEAN]
    \cup
    [fn : {"guardar"}, fase : {"entrada"}, handler : Handlers,
     previos : BOOLEAN,
     respuesta_agente : {"respuesta-del-modelo", GEMINI_FALLBACK},
     u : Uuids, proveedor : Proveedor, falla : BOOLEAN]

InitUnidad ==
    /\ usuarios = <<>>
    /\ usuarios_salud = <<>>
    /\ historial = <<>>
    /\ memoria = <<>>
    /\ entorno = {"GEMINI_API_KEY", "AWS_ACCOUNT_ID"}
    /\ usados = {}
    /\ req = Libre
    /\ unidad \in EntradasUnidad
    /\ tablas = TablasVacias
    /\ bitacora = <<>>
    /\ procesos = SinProcesos

Entrada(fn) == unidad.fn = fn /\ unidad.fase = "entrada"
Salida(fn) == unidad.fn = fn /\ unidad.fase = "salida"
Resultado(sal) ==
    /\ unidad' = [e \in {"sal"} \cup DOMAIN unidad |->
                    IF e = "sal" THEN sal
                    ELSE IF e = "fase" THEN "salida" ELSE unidad[e]]
    /\ UNCHANGED <<tablas, bitacora, procesos>>
    /\ UNCHANGED <<usuarios, usuarios_salud, historial, memoria, entorno, usados, req>>

\* the mode check of procesar_consulta (agente_service.py:64-69) and, after
\* it, ContextoFactory.get_contexto; the resolver called directly, twice
procesar_consulta_contexto(producto, nombre) ==
    IF nombre \notin CONTEXTOS_DISPONIBLES(producto)
    THEN [exc |-> "ContextoInvalidoError", contexto |-> Ausente, tablas |-> <<>>,
          daos |-> {}]
    ELSE resolver_contexto(producto, nombre)

U_get_contexto ==
    /\ Entrada("get_contexto")
    /\ Resultado([primera |-> resolver_contexto(unidad.producto, unidad.nombre),
                  segunda |-> resolver_contexto(unidad.producto, unidad.nombre),
                  servicio |-> procesar_consulta_contexto(unidad.producto,
                                                          unidad.nombre)])

U_construir_mensajes ==
    /\ Entrada("construir_mensajes")
    /\ Resultado(construir_mensajes("prompt_sistema", unidad.historial_conversacion,
                                    unidad.mensaje_usuario,
                                    rol_por_defecto(unidad.producto)))

U_get_by_key ==
    /\ Entrada("get_by_key")
    /\ Resultado(get_by_key(unidad.items, KeyHistorial, unidad.pk, unidad.sk,
                            unidad.falla))

U_query_by_partition ==
    /\ Entrada("query_by_partition")
    /\ Resultado(query_by_partition(unidad.items, KeyHistorial, unidad.pk,
                                    unidad.limit, unidad.scan_index_forward,
                                    unidad.falla))

U_scan_all ==
    /\ Entrada("scan_all")
    /\ Resultado(scan_all(unidad.items, unidad.limit,
                          [campo |-> "usuarioId", valor |-> unidad.pk], unidad.fallas))

U_put_item ==
    /\ Entrada("put_item")
    /\ Resultado(put_item(unidad.items, KeyHistorial, unidad.item, unidad.falla))

U_delete_item ==
    /\ Entrada("delete_item")
    /\ Resultado(delete_item(unidad.items, KeyHistorial, unidad.pk, unidad.sk,
                             unidad.falla))

\* the interaction table of the handler's product before the save step
TablaPrevia(h, previos) ==
    IF ~previos THEN <<>>
    ELSE IF h = "agente_consultar" THEN <<RegistroPrevio>> ELSE <<MemoriaPrevia>>

\* the save step of either handler, from the state ReqEnGuardar
U_guardar ==
    /\ Entrada("guardar")
    /\ Resultado(IF unidad.handler = "agente_consultar"
                 THEN guardar_consulta(ReqEnGuardar(unidad.handler,
                                                    unidad.respuesta_agente),
                                       TablaPrevia(unidad.handler, unidad.previos),
                                       unidad.u, unidad.proveedor, unidad.falla)
                 ELSE guardar_inicio(ReqEnGuardar(unidad.handler,
                                                  unidad.respuesta_agente),
                                     TablaPrevia(unidad.handler, unidad.previos),
                                     unidad.u, 1, unidad.falla))

\* the handler from the completion call to its response: completar, then
\* (unless the call raised) the save step
U_completar ==
    /\ Entrada("completar")
    /\ LET r1 == completar(ReqEnCompletar(unidad.handler), unidad.proveedor)
           g == IF unidad.handler = "agente_consultar"
                THEN guardar_consulta(r1, <<>>, unidad.u, unidad.proveedor_resumen,
                                      unidad.falla)
                ELSE guardar_inicio(r1, <<>>, unidad.u, 1, unidad.falla)
       IN Resultado([tras_completar |-> r1,
                     final |-> IF r1.pc = "fin" THEN r1 ELSE g.req])

\* EstadisticasContexto.build_context_data from the loaded window on, and
\* the section each of the two renderers makes of the result
U_calcular_estadisticas ==
    /\ Entrada("_calcular_estadisticas")
    /\ LET e == _calcular_estadisticas(unidad.historial)
       IN Resultado([estadisticas |-> e,
                     contexto |-> formatear_estadisticas_contexto(e),
                     prompt |-> formatear_estadisticas_prompt(e, unidad.historial)])

\* BaseContexto.cargar_datos_base for the memory, then the section of the
\* prompt made of it by each renderer
U_formatear_memoria ==
    /\ Entrada("_formatear_memoria")
    /\ LET m == get_memoria_reciente(unidad.tabla, "a@b.com", 0, FALSE)
       IN Resultado([memoria |-> m,
                     contexto |-> _formatear_memoria(m),
                     prompt |-> _formatear_historial(m)])

\* the prompt a Context assembles from the data build_context_data loaded
U_get_prompt_instructions ==
    /\ Entrada("get_prompt_instructions")
    /\ Resultado([prompt |-> get_prompt_instructions(unidad.modo, Algun(UsuarioA("true")),
                                                     unidad.memoria, unidad.datos),
                  completo_memoria |-> get_prompt_completo_memoria(unidad.memoria)])

\* BaseDAO.put_item of an item, then BaseDAO.get_by_key of its key
U_escribir_y_leer ==
    /\ Entrada("escribir_y_leer")
    /\ Resultado(escribir_y_leer(unidad.valor))

\* the retention operation on the records of u1
U_limpiar_historial_antiguo ==
    /\ Entrada("limpiar_historial_antiguo")
    /\ Resultado(limpiar_historial_antiguo(unidad.items, "u1", unidad.mantener_ultimos,
                                           unidad.falla_query, unidad.fallas))

\* agente_consultar.py:92-103 and agente_service.py:100-118: the history the
\* handler loads and the message list procesar_consulta makes of it
U_turnos_previos ==
    /\ Entrada("turnos_previos")
    /\ LET historial_previo ==
               get_historial_usuario(<<UsuarioA("true")>>,
                                     TablaDeTurnos(unidad.n, unidad.orden), "a@b.com",
                                     LIMITE_HISTORIAL_HANDLER, {}, FALSE)
       IN Resultado([historial_previo |-> historial_previo,
                     mensajes |-> construir_mensajes("prompt_sistema",
                                      conversacion_previa(historial_previo), "hola",
                                      rol_por_defecto("academico"))])

NextUnidad ==
    \/ U_turnos_previos
    \/ U_limpiar_historial_antiguo
    \/ U_escribir_y_leer
    \/ U_get_prompt_instructions
    \/ U_formatear_memoria
    \/ U_calcular_estadisticas
    \/ U_completar
    \/ U_get_contexto
    \/ U_construir_mensajes
    \/ U_get_by_key
    \/ U_query_by_partition
    \/ U_scan_all
    \/ U_put_item
    \/ U_delete_item
    \/ U_guardar

SpecUnidad == InitUnidad /\ [][NextUnidad]_vars

\* ========================================================= SpecRegistros
\* The handlers that write records, each invocation one action.

\* agregar_memoria.py: handler.  token is the email of the bearer token;
\* context_id = Ninguno: the body has no context_id and one is generated
agregar_memoria(mem, cuerpo, correo, token, context_id, fecha, resumen, u, falla) ==
    LET correo_ == IF falsy(correo) THEN token ELSE correo
    IN IF cuerpo = "malformado" THEN [status |-> 400, items |-> mem]
       ELSE IF falsy(correo_) \/ ~validar_email(correo_)
       THEN [status |-> 400, items |-> mem]
       ELSE IF "memoria" \notin dao_map("salud") THEN [status |-> 500, items |-> mem]
       ELSE IF falsy(resumen) THEN [status |-> 400, items |-> mem]
       ELSE LET registro ==
                  [correo |-> correo_,
                   context_id |-> IF context_id = Ninguno THEN hex8(u) ELSE context_id[1],
                   fecha |-> fecha,
                   resumen_conversacion |-> <<resumen>>,
                   intencion_detectada |-> "no_detectada"]
                w == guardar_memoria(mem, registro, falla)
            IN IF ~w.valor THEN [status |-> 500, items |-> mem]
               ELSE [status |-> 200, items |-> w.items]

\* agregar_historial.py: handler.  DAOFactory.get_dao('historial') is the
\* HistorialDAO of dao/historial_dao.py, which has no agregar_registro: the
\* AttributeError is caught by the handler's except Exception
agregar_historial(cuerpo, correo, token, hay_datos) ==
    LET correo_ == IF falsy(correo) THEN token ELSE correo
    IN IF cuerpo = "malformado" THEN [status |-> 400]
       ELSE IF falsy(correo_) \/ ~validar_email(correo_) THEN [status |-> 400]
       ELSE IF "historial" \notin DAOFactory_dao_map THEN [status |-> 500]
       ELSE IF ~hay_datos THEN [status |-> 400]
       ELSE [status |-> 500]

\* subirTarea.py: get_user_id.  The payload of the token is decoded without
\* verifying it; sub = Ausente: no token, or one that does not decode
get_user_id(sub) == sub

\* subirTarea.py: lambda_handler.  Nothing looks usuario_id up in Usuario.
subirTarea(tareas, ent, hay_archivo, sub, gemini_json, u, falla) ==
    IF "GEMINI_API_KEY" \notin ent THEN [status |-> 500, items |-> tareas]
    ELSE IF ~hay_archivo THEN [status |-> 400, items |-> tareas]
    ELSE IF falsy(get_user_id(sub)) THEN [status |-> 401, items |-> tareas]
    ELSE IF ~gemini_json THEN [status |-> 500, items |-> tareas]
    ELSE LET item == [id |-> u, usuarioId |-> get_user_id(sub), texto |-> "texto"]
             w == table_put_item(tareas, KeyDatos, item, falla)
         IN IF w.excepcion THEN [status |-> 500, items |-> tareas]
            ELSE [status |-> 200, items |-> w.items]

\* ---- actualizarUsuario.py
\* dict.update
update(d, nuevos) ==
    [k \in DOMAIN d \cup DOMAIN nuevos |-> IF k \in DOMAIN nuevos THEN nuevos[k] ELSE d[k]]

\* 'x' in body and body['x']: the sub-resource is there and is not empty
provisto(parte) == parte # Ninguno /\ DOMAIN parte[1] # {}

\* one Scan call with Limit=1: the filter sees the first item of the table only
obtener_usuario_por_correo(usrs, correo, falla) ==
    LET r == table_scan(usrs, 1, [campo |-> "correo", valor |-> correo], 0, falla)
    IN [excepcion |-> r.excepcion,
        usuario |-> IF ~r.excepcion /\ r.items # <<>> THEN Algun(r.items[1])
                    ELSE Ninguno]

obtener_o_crear_registro(tabla, usuario_id, datos_nuevos, u, falla) ==
    LET r == table_query(tabla, KeyDatos, usuario_id, 1, FALSE, falla)
    IN IF r.excepcion THEN [id |-> u, usuarioId |-> usuario_id]
       ELSE IF r.items # <<>> THEN r.items[1]
       ELSE update([id |-> u, usuarioId |-> usuario_id], datos_nuevos)

\* a User record keeps the field autorizacion, "ausente" when the item has
\* no such attribute
con_autorizacion(usuario) ==
    IF "autorizacion" \in DOMAIN usuario THEN usuario
    ELSE update(usuario, [autorizacion |-> "ausente"])

\* handler, step 2: the Usuario item is replaced by the sub-resource
actualizar_parte_usuario(usrs, usuario_existente, correo, parte, falla) ==
    IF ~provisto(parte) THEN [excepcion |-> FALSE, items |-> usrs, hecho |-> FALSE]
    ELSE LET claves == update(parte[1], [id |-> usuario_existente.id,
                                         correo |-> correo])
             datos_usuario ==
                 IF "contrasena" \in DOMAIN claves THEN claves
                 ELSE update(claves, [contrasena |-> usuario_existente.contrasena])
             w == table_put_item(usrs, KeyUsuario, con_autorizacion(datos_usuario),
                                 falla)
         IN [excepcion |-> w.excepcion, items |-> w.items, hecho |-> ~w.excepcion]

\* handler, steps 3 to 5: one data table
actualizar_parte_datos(tabla, usuario_id, parte, u, falla_query, falla_put) ==
    IF ~provisto(parte) THEN [excepcion |-> FALSE, items |-> tabla, hecho |-> FALSE]
    ELSE LET registro == obtener_o_crear_registro(tabla, usuario_id, parte[1], u,
                                                  falla_query)
             mezclado == update(update(registro, parte[1]), [usuarioId |-> usuario_id])
             w == table_put_item(tabla, KeyDatos, mezclado, falla_put)
         IN [excepcion |-> w.excepcion, items |-> w.items, hecho |-> ~w.excepcion]

\* handler.  falla: the store call that raises ("ninguna", "scan", "query",
\* "put"); a put that raises ends the handler with the earlier puts done
actualizarUsuario(usrs, tabs, body, u, falla) ==
    LET sin_cambio == [usuarios |-> usrs, tablas |-> tabs]
        b == obtener_usuario_por_correo(usrs, body.correo, falla = "scan")
    IN IF body.cuerpo = "malformado" \/ falsy(body.correo)
       THEN [status |-> 400] @@ sin_cambio
       ELSE IF b.excepcion THEN [status |-> 500] @@ sin_cambio
       ELSE IF b.usuario = Ninguno THEN [status |-> 404] @@ sin_cambio
       ELSE LET id == b.usuario[1].id
                fq == falla = "query"
                fp == falla = "put"
                p2 == actualizar_parte_usuario(usrs, b.usuario[1], body.correo,
                                               body.usuario, fp)
                p3 == IF p2.excepcion THEN p2
                      ELSE actualizar_parte_datos(tabs.datos_academicos, id,
                                                  body.datos_academicos, u, fq, fp)
                p4 == IF p2.excepcion \/ p3.excepcion THEN p3
                      ELSE actualizar_parte_datos(tabs.datos_emocionales, id,
                                                  body.datos_emocionales, u, fq, fp)
                p5 == IF p2.excepcion \/ p3.excepcion \/ p4.excepcion THEN p4
                      ELSE actualizar_parte_datos(tabs.datos_socioeconomicos, id,
                                                  body.datos_socioeconomicos, u, fq, fp)
                excepcion == p2.excepcion \/ p3.excepcion \/ p4.excepcion \/ p5.excepcion
                actualizaciones ==
                    {n \in {"usuario", "datos_academicos", "datos_emocionales",
                            "datos_socioeconomicos"} :
                        CASE n = "usuario" -> p2.hecho
                          [] n = "datos_academicos" -> ~p2.excepcion /\ p3.hecho
                          [] n = "datos_emocionales" ->
                                 ~p2.excepcion /\ ~p3.excepcion /\ p4.hecho
                          [] OTHER -> ~p2.excepcion /\ ~p3.excepcion
                                         /\ ~p4.excepcion /\ p5.hecho}
            IN [status |-> IF excepcion THEN 500
                           ELSE IF actualizaciones = {} THEN 400 ELSE 200,
                usuarios |-> p2.items,
                tablas |-> [tabs EXCEPT
                    !.datos_academicos =
                        IF p2.excepcion THEN @ ELSE p3.items,
                    !.datos_emocionales =
                        IF p2.excepcion \/ p3.excepcion THEN @ ELSE p4.items,
                    !.datos_socioeconomicos =
                        IF p2.excepcion \/ p3.excepcion \/ p4.excepcion THEN @
                        ELSE p5.items]]

\* ---- state and actions
UuidsRegistros == 1..(MaxInvocaciones + 1)
DatosPrevios == [id |-> 0, usuarioId |-> "u1", carrera |-> "C1", ciclo_actual |-> 3]

InitRegistros ==
    /\ usuarios \in {<<UsuarioA("true")>>, <<UsuarioC, UsuarioA("true")>>}
    /\ usuarios_salud = <<[correo |-> "a@b.com", nombre |-> "Ana"]>>
    /\ \E previos \in BOOLEAN :
          /\ historial = IF previos THEN <<RegistroPrevio>> ELSE <<>>
          /\ memoria = IF previos THEN <<MemoriaPrevia>> ELSE <<>>
          /\ tablas = IF previos
                      THEN [TablasVacias EXCEPT !.datos_academicos = <<DatosPrevios>>]
                      ELSE TablasVacias
    /\ entorno = {"GEMINI_API_KEY", "AWS_ACCOUNT_ID"}
    /\ usados = {}
    /\ req = Libre
    /\ unidad = SinUnidad
    /\ bitacora = <<>>
    /\ procesos = SinProcesos

\* one more invocation fits in the run
Invocable == Len(bitacora) < MaxInvocaciones
\* the uuid4 values not drawn before
Libres == UuidsRegistros \ usados
\* the log of the run: the operation, its status code, the owner it named
\* and whether its put reached the store
Anotar(op, status, dueno, guardado) ==
    bitacora' = Append(bitacora, [op |-> op, status |-> status, dueno |-> dueno,
                                  guardado |-> guardado])
\* the uuid4 counts as drawn when a stored record carries it
Gastar(u, gastado) == usados' = IF gastado THEN usados \cup {u} ELSE usados

R_agregar_memoria ==
    \E u \in Libres, cuerpo \in {"json", "malformado"},
       correo \in {"a@b.com", "c@d.com", "sin-arroba", Ausente},
       context_id \in {Ninguno, Algun(1)}, resumen \in {"", "r1", "r2"}, falla \in BOOLEAN :
       /\ Invocable
       /\ cuerpo = "malformado"
             => (correo = Ausente /\ context_id = Ninguno /\ resumen = "" /\ ~falla)
       /\ falla => (correo = "a@b.com" /\ resumen = "r1")
       /\ LET r == agregar_memoria(memoria, cuerpo, correo, Ausente, context_id,
                                   Len(memoria) + 1, resumen, u, falla)
          IN /\ memoria' = r.items
             /\ Gastar(u, r.status = 200 /\ context_id = Ninguno)
             /\ Anotar("agregar_memoria", r.status, correo, r.status = 200)
       /\ UNCHANGED <<usuarios, usuarios_salud, historial, entorno, req, unidad, procesos, tablas>>

R_agregar_historial ==
    \E cuerpo \in {"json", "malformado"},
       correo \in {"a@b.com", "sin-arroba"}, hay_datos \in BOOLEAN :
       /\ Invocable
       /\ Anotar("agregar_historial",
                 agregar_historial(cuerpo, correo, Ausente, hay_datos).status,
                 correo, FALSE)
       /\ UNCHANGED <<usuarios, usuarios_salud, historial, memoria, entorno, usados,
                      req, unidad, procesos, tablas>>

R_subirTarea ==
    \E u \in Libres, hay_archivo \in BOOLEAN, sub \in {Ausente, "u1", "u9"},
       gemini_json \in BOOLEAN, falla \in BOOLEAN :
       /\ Invocable
       /\ falla => (hay_archivo /\ sub = "u1" /\ gemini_json)
       /\ LET r == subirTarea(tablas.tareas, entorno, hay_archivo, sub, gemini_json,
                              u, falla)
          IN /\ tablas' = [tablas EXCEPT !.tareas = r.items]
             /\ Gastar(u, r.status = 200)
             /\ Anotar("subirTarea", r.status, sub, r.status = 200)
       /\ UNCHANGED <<usuarios, usuarios_salud, historial, memoria, entorno, req, unidad, procesos>>

\* the bodies of PUT /usuario: which sub-resources they carry
CuerposActualizar ==
    LET P(u, a, e, so) == [cuerpo |-> "json", usuario |-> u, datos_academicos |-> a,
                          datos_emocionales |-> e, datos_socioeconomicos |-> so]
        nombre == Algun([nombre |-> "N2"])
        carrera == Algun([carrera |-> "C2"])
        horas == Algun([horas_estudio_estimadas |-> 9])
        laboral == Algun([situacion_laboral |-> "TRABAJA"])
        vacio == Algun(<<>>)
    IN {P(nombre, Ninguno, Ninguno, Ninguno), P(Ninguno, carrera, Ninguno, Ninguno),
        P(Ninguno, Ninguno, horas, Ninguno), P(Ninguno, Ninguno, Ninguno, laboral),
        P(nombre, carrera, horas, laboral), P(Ninguno, vacio, Ninguno, Ninguno),
        P(Ninguno, Ninguno, Ninguno, Ninguno)}

R_actualizarUsuario ==
    \E u \in Libres, partes \in CuerposActualizar,
       correo \in {"a@b.com", "x@y.com", Ausente},
       falla \in {"ninguna", "scan", "query", "put"} :
       /\ Invocable
       /\ falla # "ninguna" => correo = "a@b.com"
       /\ \E r \in {actualizarUsuario(usuarios, tablas,
                                       [correo |-> correo] @@ partes, u, falla)} :
             /\ usuarios' = r.usuarios
             /\ tablas' = r.tablas
             /\ Gastar(u, \E t \in DOMAIN tablas : Len(r.tablas[t]) > Len(tablas[t]))
             /\ Anotar("actualizarUsuario", r.status, correo, r.status = 200)
       /\ UNCHANGED <<usuarios_salud, historial, memoria, entorno, req, unidad, procesos>>

R_toggle_autorizacion ==
    \E correo \in {"a@b.com", "x@y.com"},
       autorizacion \in {"true", "false"}, falla_put \in BOOLEAN :
       /\ Invocable
       /\ LET t == toggle_autorizacion(usuarios, "json", correo, autorizacion, {},
                                       falla_put)
          IN /\ usuarios' = t.items
             /\ Anotar("toggle_autorizacion", t.status, correo, t.status = 200)
       /\ UNCHANGED <<usuarios_salud, historial, memoria, entorno, usados, req, unidad, procesos,
                      tablas>>

\* agente_consultar from its save step on, for the request ReqEnGuardar of a
\* user the handler found and let through
R_guardar_consulta ==
    \E u \in Libres, falla \in BOOLEAN :
       /\ Invocable
       /\ LET usuario == get_usuario_por_correo(usuarios, "a@b.com", {})
          IN usuario # Ninguno /\ autorizado(usuario[1])
       /\ LET g == guardar_consulta(ReqEnGuardar("agente_consultar",
                                                 "respuesta-del-modelo"),
                                    historial, u, "ok", falla)
          IN /\ historial' = g.items
             /\ Gastar(u, ~falla)
             /\ Anotar("agente_consultar", g.req.respuesta.statusCode, "a@b.com", ~falla)
       /\ UNCHANGED <<usuarios, usuarios_salud, memoria, entorno, req, unidad, procesos, tablas>>

\* agente_iniciar from its save step on
R_guardar_inicio ==
    \E u \in Libres, falla \in BOOLEAN :
       /\ Invocable
       /\ get_usuario(usuarios_salud, "a@b.com", FALSE) # Ninguno
       /\ LET g == guardar_inicio(ReqEnGuardar("agente_iniciar", "respuesta-del-modelo"),
                                  memoria, u, Len(memoria) + 1, falla)
          IN /\ memoria' = g.items
             /\ Gastar(u, ~falla)
             /\ Anotar("agente_iniciar", g.req.respuesta.statusCode, "a@b.com", ~falla)
       /\ UNCHANGED <<usuarios, usuarios_salud, historial, entorno, req, unidad, procesos, tablas>>

NextRegistros ==
    \/ R_agregar_memoria
    \/ R_agregar_historial
    \/ R_subirTarea
    \/ R_actualizarUsuario
    \/ R_toggle_autorizacion
    \/ R_guardar_consulta
    \/ R_guardar_inicio

SpecRegistros == InitRegistros /\ [][NextRegistros]_vars

\* =========================================================== properties
\* ---- vocabulary of the properties (Spec)
Fin == req.pc = "fin"
Consultar == req.handler = "agente_consultar"
Iniciar == req.handler = "agente_iniciar"

\* the owner email of the request has a User record in its product's table
ExisteUsuario ==
    IF Consultar THEN \E i \in 1..Len(usuarios) : usuarios[i].correo = req.correo
                 ELSE \E i \in 1..Len(usuarios_salud) : usuarios_salud[i].correo = req.correo

\* everything but the mode is as the handler requires
\* (agente_iniciar: a decodable token and a message;
\*  agente_consultar: JSON, a well-formed email, a non-blank message <= 5000)
PeticionBienFormada ==
    /\ req.cuerpo = "json"
    /\ IF Consultar
       THEN req.correo \in {"a@b.com", "c@d.com"} /\ req.mensaje = "hola"
       ELSE req.correo # Ausente /\ req.mensaje \in {"   ", "hola", "largo"}

ModoDelProducto ==
    IF Consultar
    THEN req.contexto \in {"MentorAcademico", "OrientadorVocacional", "Psicologo"}
    ELSE req.contexto \in {"General", "Servicios", "Estadisticas", "Recetas"}

ConfiguracionCompleta ==
    /\ "GEMINI_API_KEY" \in entorno
    /\ Consultar => "AWS_ACCOUNT_ID" \in entorno

\* InteractionRecords of the owner of the request in a table of its product
RegistrosDe(tabla) ==
    IF Consultar
    THEN {i \in 1..Len(tabla) : tabla[i].usuarioId = "u1"}
    ELSE {i \in 1..Len(tabla) : tabla[i].correo = req.correo}

SinEscritura == historial = req.historial0 /\ memoria = req.memoria0

\* C1 (as the spec states it): an existing, authorized user with no prior
\* records sends a valid mode and a non-empty message, store and provider are
\* healthy: the response is 200 with a non-empty respuesta, and exactly one
\* new InteractionRecord of that user is stored.
C1_ExitoConRegistro ==
    ( /\ Fin /\ PeticionBienFormada /\ ModoDelProducto /\ ConfiguracionCompleta
      /\ ~req.falla /\ ExisteUsuario
      /\ Consultar => /\ req.usuario # Ninguno
                      /\ req.usuario[1].autorizacion = "true"
                      /\ \A i \in 1..Len(usuarios) :
                            usuarios[i].correo = req.correo
                               => usuarios[i].autorizacion = "true"
      /\ RegistrosDe(IF Consultar THEN req.historial0 ELSE req.memoria0) = {} )
    => /\ req.respuesta.statusCode = 200
       /\ req.respuesta.respuesta \notin {Ausente, ""}
       /\ Cardinality(RegistrosDe(IF Consultar THEN historial ELSE memoria)) = 1
       /\ Len(historial) + Len(memoria)
             = Len(req.historial0) + Len(req.memoria0) + 1

\* C2: a request whose owner email has no User record never reaches the
\* completion client and writes no InteractionRecord; when the request is
\* otherwise valid (and, for agente_iniciar, the configuration is complete
\* and the store answers) the response is 404.
C2_UsuarioInexistente ==
    (Fin /\ ~ExisteUsuario)
    => /\ req.llamadas = 0
       /\ SinEscritura
       /\ ( /\ PeticionBienFormada /\ ModoDelProducto
            /\ Iniciar => (ConfiguracionCompleta /\ ~req.falla) )
          => req.respuesta.statusCode = 404

C2_Testigo ==
    /\ Fin /\ Iniciar /\ ~ExisteUsuario /\ PeticionBienFormada /\ ModoDelProducto
    /\ req.respuesta.statusCode = 404
    /\ "store" \in {req.traza[i] : i \in 1..Len(req.traza)}

\* C3: in agente_consultar, when the User record the handler read has the
\* authorization flag false or absent, the response is 403, the completion
\* client is not called and no InteractionRecord is written.
C3_SinAutorizacion ==
    (Fin /\ Consultar /\ req.usuario # Ninguno
         /\ req.usuario[1].autorizacion # "true")
    => /\ req.respuesta.statusCode = 403
       /\ req.llamadas = 0
       /\ SinEscritura

C3_Testigo ==
    /\ Fin /\ Consultar /\ req.usuario # Ninguno
    /\ req.usuario[1].autorizacion = "ausente"
    /\ req.respuesta.statusCode = 403

\* C4: a request whose mode is not in the enumeration of its product makes
\* no completion call and writes no InteractionRecord; when the checks the
\* handler runs before the mode check pass, the response is 400 and its body
\* lists the valid modes of the product.
C4_ModoInvalido ==
    (Fin /\ ~ModoDelProducto /\ (Iniciar => req.contexto # Ausente))
    => /\ req.llamadas = 0
       /\ SinEscritura
       /\ ( /\ req.cuerpo = "json"
            /\ Consultar => req.correo \in {"a@b.com", "c@d.com"}
            /\ Iniciar => (req.correo # Ausente /\ ~req.falla /\ req.mensaje # Ausente) )
          => /\ req.respuesta.statusCode = 400
             /\ req.respuesta.modos =
                  IF Consultar
                  THEN {"MentorAcademico", "OrientadorVocacional", "Psicologo"}
                  ELSE {"General", "Servicios", "Estadisticas", "Recetas"}

C4_Testigo ==
    /\ Fin /\ Consultar /\ req.contexto = "NotARealMode" /\ req.cuerpo = "json"
    /\ req.correo = "a@b.com"
    /\ req.respuesta.statusCode = 400
    /\ req.respuesta.modos = {"MentorAcademico", "OrientadorVocacional", "Psicologo"}

\* C5 (as the spec states it): resolving a name outside the enumeration of
\* the product fails with ContextoInvalidoError, constructs no Context and
\* acquires no repository.
C5_ErrorDeContexto ==
    (Salida("get_contexto") /\ unidad.nombre \notin CONTEXTOS_DISPONIBLES(unidad.producto))
    => /\ unidad.sal.primera.exc = "ContextoInvalidoError"
       /\ unidad.sal.primera.contexto = Ausente
       /\ unidad.sal.primera.daos = {}

\* C6 (as the spec states it): for every name in Config.CONTEXTOS_DISPONIBLES
\* the resolver returns a Context whose required-tables list is non-empty
\* and the same on every call.
C6_ResuelveLaEnumeracion ==
    (Salida("get_contexto") /\ unidad.nombre \in CONTEXTOS_DISPONIBLES(unidad.producto))
    => /\ unidad.sal.primera.exc = "ninguna"
       /\ unidad.sal.primera.tablas # <<>>
       /\ unidad.sal.primera.tablas = unidad.sal.segunda.tablas

\* ---- vocabulary of the properties (SpecUnidad, store adapter)
HayItem(pk, sk) ==
    \E i \in 1..Len(unidad.items) :
       /\ unidad.items[i].usuarioId = pk
       /\ sk # Ninguno /\ unidad.items[i].id = sk[1]

\* a page of the scan that the pagination loop reaches raises
FallaDeScanAlcanzada ==
    \E o \in unidad.fallas :
       \/ o = 0
       \/ /\ unidad.limit = 1
          /\ \A i \in 1..o : unidad.items[i].usuarioId # unidad.pk

\* C7: every BaseDAO operation that hits a store fault returns its empty
\* value (None, [], False) and raises nothing; a read under a fault returns
\* what it returns when nothing is found, a write under a fault changes
\* nothing.
C7_FallasDelAlmacen ==
    /\ (unidad.fase = "salida" /\ unidad.fn \in {"get_by_key", "query_by_partition",
                                               "scan_all", "put_item", "delete_item"})
          => unidad.sal.raised = FALSE
    /\ (Salida("get_by_key") /\ (unidad.falla \/ ~HayItem(unidad.pk, unidad.sk)))
          => unidad.sal.valor = Ninguno
    /\ (Salida("query_by_partition")
          /\ (unidad.falla \/ \A i \in 1..Len(unidad.items) :
                                 unidad.items[i].usuarioId # unidad.pk))
          => unidad.sal.valor = <<>>
    /\ (Salida("scan_all")
          /\ (FallaDeScanAlcanzada \/ \A i \in 1..Len(unidad.items) :
                                         unidad.items[i].usuarioId # unidad.pk))
          => unidad.sal.valor = <<>>
    /\ (Salida("put_item") /\ unidad.falla)
          => (unidad.sal.valor = FALSE /\ unidad.sal.items = unidad.items)
    /\ (Salida("delete_item") /\ unidad.falla)
          => (unidad.sal.valor = FALSE /\ unidad.sal.items = unidad.items)

C7_Testigo ==
    /\ Salida("get_by_key") /\ unidad.falla /\ HayItem(unidad.pk, unidad.sk)
    /\ unidad.sal.valor = Ninguno /\ unidad.sal.raised = FALSE

\* C8: when the provider call fails, the completion client returns the fixed
\* fallback sentence after exactly one attempt and raises nothing to
\* procesar_consulta, and the handler still answers 200, with the fallback
\* as its respuesta.
C8_FalloDelProveedor ==
    (Salida("completar") /\ unidad.proveedor = "error")
    => /\ unidad.sal.tras_completar.pc = "guardar"
       /\ unidad.sal.tras_completar.respuesta_agente = GEMINI_FALLBACK
       /\ unidad.sal.tras_completar.llamadas = 1
       /\ unidad.sal.tras_completar.traza = <<"llm">>
       /\ unidad.sal.final.respuesta.statusCode = 200
       /\ unidad.sal.final.respuesta.error = FALSE
       /\ unidad.sal.final.respuesta.respuesta = GEMINI_FALLBACK

C8_Testigo ==
    /\ Salida("completar") /\ unidad.proveedor = "error"
    /\ unidad.handler = "agente_consultar" /\ ~unidad.falla
    /\ unidad.sal.final.pc = "fin"
    /\ unidad.sal.final.respuesta.statusCode = 200
    /\ unidad.sal.final.respuesta.respuesta = GEMINI_FALLBACK

C10_ListaDeMensajes ==
    Salida("construir_mensajes")
    => LET m == unidad.sal
           h == unidad.historial_conversacion
           k == IF Len(h) > 5 THEN 5 ELSE Len(h)
       IN /\ Len(m) = k + 2
          /\ m[1].role = "system" /\ m[1].content = "prompt_sistema"
          /\ m[Len(m)].role = "user" /\ m[Len(m)].content = unidad.mensaje_usuario
          /\ \A i \in 1..k :
                /\ m[i + 1].content = h[Len(h) - k + i].content
                /\ h[Len(h) - k + i].role # Ausente
                      => m[i + 1].role = h[Len(h) - k + i].role

C10_Testigo ==
    /\ Salida("construir_mensajes")
    /\ Len(unidad.historial_conversacion) > 5
    /\ Len(unidad.sal) = 7
    /\ unidad.sal[2].content = "t2"


\* ------------------------------------------------------------------ C11
RECURSIVE NoNulos(_, _, _)
\* the non-null values a window holds for a metric, one per record at most:
\* the wearables value, else the sensores value
NoNulos(ventana, w, s) ==
    IF ventana = <<>> THEN <<>>
    ELSE LET registro == ventana[1]
             x == IF registro[w] # Ninguno \/ s = Ausente THEN registro[w]
                  ELSE registro[s]
             resto == NoNulos(Tail(ventana), w, s)
         IN IF x # Ninguno THEN <<x[1]>> \o resto ELSE resto

\* the fraction f is the arithmetic mean of the values l
EsMedia(f, l) == f # Ninguno /\ f[1] * Len(l) = sum(l) * f[2]

Calculado == Salida("_calcular_estadisticas") /\ unidad.sal.estadisticas # Ninguno

\* C11: the aggregate of each metric is computed over exactly the non-null
\* values of the window, 0 included: the reported mean, max and min are the
\* arithmetic mean, maximum and minimum of those values.
C11_AgregadosAritmeticos ==
    Calculado =>
        LET e == unidad.sal.estadisticas[1]
            pasos == NoNulos(unidad.historial, "w_pasos", "s_pasos")
            sueno == NoNulos(unidad.historial, "w_sueno", "s_sueno")
            fc    == NoNulos(unidad.historial, "w_fc", Ausente)
        IN /\ pasos # <<>> =>
                /\ EsMedia(e.pasos_promedio, pasos)
                /\ e.pasos_max = max(pasos)
                /\ e.pasos_min = min(pasos)
           /\ sueno # <<>> =>
                /\ EsMedia(e.sueno_promedio, sueno)
                /\ e.sueno_max = max(sueno)
                /\ e.sueno_min = min(sueno)
           /\ fc # <<>> => EsMedia(e.fc_promedio, fc)

\* ------------------------------------------------------------------ C12
\* C12: a metric to which no record of the window contributes a value has no
\* line in the section the Statistics context renders: no 0, no placeholder.
C12_MetricaSinValoresOmitida ==
    Salida("_calcular_estadisticas") =>
        /\ NoNulos(unidad.historial, "w_pasos", "s_pasos") = <<>>
               => unidad.sal.contexto.pasos = Ninguno
        /\ NoNulos(unidad.historial, "w_sueno", "s_sueno") = <<>>
               => unidad.sal.contexto.sueno = Ninguno
        /\ NoNulos(unidad.historial, "w_fc", Ausente) = <<>>
               => unidad.sal.contexto.fc = Ninguno


\* ------------------------------------------------------------------ C13
\* the records of a table that are among the k most recent by date
MasRecientes(tabla, k) ==
    {i \in 1..Len(tabla) :
        Cardinality({j \in 1..Len(tabla) : tabla[j].fecha > tabla[i].fecha}) < k}

\* C13: the rendered recent interactions are at most 5, they are the 5 most
\* recent records of the user, and each summary is cut to the character
\* budget; more than 5 records render exactly 5 entries.
C13_CincoMasRecientes ==
    Salida("_formatear_memoria") =>
        LET e == unidad.sal.contexto.entradas
            t == unidad.tabla
        IN /\ Len(e) = IF Len(t) < 5 THEN Len(t) ELSE 5
           /\ {e[i].context_id : i \in 1..Len(e)}
                 = {t[i].context_id : i \in MasRecientes(t, 5)}
           /\ \A i \in 1..Len(e) : e[i].largo <= TEXTO_MAXIMO


\* ------------------------------------------------------------------ C14
\* C14: for a user with no interaction records and no domain data, the
\* context every mode renders holds an explicit "no data" sentence for the
\* recent interactions and for each data group of the mode: no section is
\* empty or left out.
C14_FraseSinDatos ==
    /\ Salida("get_prompt_instructions")
    /\ unidad.memoria = <<>>
    /\ unidad.datos = {}
    => /\ unidad.sal.prompt.memoria = "sin_datos"
       /\ \A g \in DOMAIN unidad.sal.prompt.datos :
             unidad.sal.prompt.datos[g] = "sin_datos"


\* ------------------------------------------------------------------ C15
RECURSIVE MismoValor(_, _)
\* two values are the same up to the Python type of their numbers
MismoValor(a, b) ==
    /\ a.clase = b.clase
    /\ CASE a.clase = "list" ->
              /\ Len(a.items) = Len(b.items)
              /\ \A i \in DOMAIN a.items : MismoValor(a.items[i], b.items[i])
         [] a.clase = "dict" -> MismoValor(a.valor, b.valor)
         [] a.clase = "num" -> a.alto = b.alto /\ a.bajo = b.bajo /\ a.dec = b.dec
         [] OTHER -> TRUE

RECURSIVE TodoNumero(_, _)
\* every number of a value is of one of the given types and, when it is an
\* int, at most 2^53
TodoNumero(a, tipos) ==
    CASE a.clase = "list" -> \A i \in DOMAIN a.items : TodoNumero(a.items[i], tipos)
      [] a.clase = "dict" -> TodoNumero(a.valor, tipos)
      [] a.clase = "num" ->
              /\ a.tipo \in tipos
              /\ a.tipo = "int" => a.alto < 2 ^ 23 \/ (a.alto = 2 ^ 23 /\ a.bajo = 0)
      [] OTHER -> TRUE

Guardados(ops, dueno) ==
    Cardinality({i \in 1..Len(bitacora) :
                    /\ bitacora[i].op \in ops
                    /\ bitacora[i].guardado
                    /\ bitacora[i].dueno = dueno})

RegistrosDeMemoria(correo) == {i \in 1..Len(memoria) : memoria[i].correo = correo}
RegistrosDeHistorial(id) == {i \in 1..Len(historial) : historial[i].usuarioId = id}

\* C16 (as the spec states it): requests that each stored an
\* InteractionRecord for the same user never collide: the store holds, for
\* every user, at least one record per request that stored one.
C16_ClavesSinColision ==
    /\ \A correo \in {"a@b.com", "c@d.com"} :
          Cardinality(RegistrosDeMemoria(correo))
             >= Guardados({"agregar_memoria", "agente_iniciar"}, correo)
    /\ Cardinality(RegistrosDeHistorial("u1")) >= Guardados({"agente_consultar"}, "a@b.com")

\* every record of the table before the step is in the table after it
Conserva(antes, despues) ==
    \A i \in 1..Len(antes) : \E j \in 1..Len(despues) : despues[j] = antes[i]

\* C17 (as the spec states it): InteractionRecords are append-only: no
\* step of a handler deletes or overwrites a stored InteractionRecord, every
\* earlier record of every user is still there, unchanged, after the step.
C17_SoloAgrega ==
    [][Conserva(memoria, memoria') /\ Conserva(historial, historial')]_vars

\* the ownership keys that resolve to a User of each product
CorreosDeSalud == {usuarios_salud[i].correo : i \in 1..Len(usuarios_salud)}
IdsDeUsuario == {usuarios[i].id : i \in 1..Len(usuarios)}

\* C18 (as the spec states it): every stored InteractionRecord and
\* DomainRecord has an ownership key that resolves to an existing User.
C18_DuenoExistente ==
    /\ \A i \in 1..Len(memoria) : memoria[i].correo \in CorreosDeSalud
    /\ \A i \in 1..Len(historial) : historial[i].usuarioId \in IdsDeUsuario
    /\ \A t \in DOMAIN tablas :
          \A i \in 1..Len(tablas[t]) : tablas[t][i].usuarioId \in IdsDeUsuario

\* the fields of a User record other than the authorization flag
Resto(usuario) == [k \in DOMAIN usuario \ {"autorizacion"} |-> usuario[k]]
\* the operation of the step that has just been taken
Operacion == bitacora'[Len(bitacora')].op

TablasDePerfil == {"datos_academicos", "datos_emocionales", "datos_socioeconomicos"}
SinId(registro) == [k \in DOMAIN registro \ {"id"} |-> registro[k]]

\* despues is antes after an upsert of parte for the owner id: no parte, no
\* change; no record of the owner, one is created with the fields of parte;
\* otherwise the fields parte names are replaced and the others kept
EsUpsert(antes, despues, id, parte) ==
    LET suyos == {i \in 1..Len(antes) : antes[i].usuarioId = id}
    IN IF ~provisto(parte) THEN despues = antes
       ELSE IF suyos = {}
       THEN /\ Len(despues) = Len(antes) + 1
            /\ SubSeq(despues, 1, Len(antes)) = antes
            /\ SinId(despues[Len(despues)]) = update([usuarioId |-> id], parte[1])
       ELSE /\ Len(despues) = Len(antes)
            /\ \A i \in 1..Len(antes) :
                  despues[i] = IF i \in suyos THEN update(antes[i], parte[1])
                               ELSE antes[i]

EsUpsertDeUsuario(antes, despues, correo, parte) ==
    /\ Len(despues) = Len(antes)
    /\ \A i \in 1..Len(antes) :
          despues[i] = IF provisto(parte) /\ antes[i].correo = correo
                       THEN update(antes[i], parte[1])
                       ELSE antes[i]

\* C20 (as the spec states it): a profile update that answers 200 is, for
\* some request body, the upsert of each sub-resource the body carries: a
\* record is created for an owner that has none, the fields the partial
\* record names are replaced in a record that exists and every other field
\* keeps its value, and the sub-resources the body does not carry are
\* unchanged.
C20_Upsert ==
    [][ (Operacion = "actualizarUsuario" /\ bitacora'[Len(bitacora')].status = 200)
        => \E partes \in CuerposActualizar :
              LET correo == bitacora'[Len(bitacora')].dueno
                  id == usuarios[CHOOSE i \in 1..Len(usuarios) :
                                    usuarios[i].correo = correo].id
              IN /\ EsUpsertDeUsuario(usuarios, usuarios', correo, partes.usuario)
                 /\ \A t \in TablasDePerfil :
                       EsUpsert(tablas[t], tablas'[t], id, partes[t])
                 /\ tablas'.tareas = tablas.tareas ]_vars

\* the fields of the request that the message of an error response names
CamposNombrados(respuesta) ==
    CASE respuesta.mensaje = "Email invalido" -> {"correo"}
      [] respuesta.mensaje = "Contexto invalido" -> {"contexto"}
      [] respuesta.mensaje \in {"Mensaje requerido", "Mensaje muy largo"} -> {"mensaje"}
      [] OTHER -> {}

\* C21 (as the spec states it): a request of agente_consultar with several
\* invalid or missing fields is answered 400 and the response names each of
\* them, every field the validator's list of errors has.
C21_MensajesDetallados ==
    (Fin /\ Consultar /\ req.cuerpo = "json"
         /\ validar_request_agente(req.correo, req.contexto, req.mensaje) # {})
    => /\ req.respuesta.statusCode = 400
       /\ validar_request_agente(req.correo, req.contexto, req.mensaje)
             \subseteq CamposNombrados(req.respuesta)

\* the records of a user in a Historial table, in the order they were written
DeUsuario(tabla, id) == Filtrar(tabla, Indices(tabla, "usuarioId", id))
Ultimos_escritos(s, n) == SubSeq(s, Len(s) - n + 1, Len(s))

\* C22 (as the spec states it): with the query and every delete succeeding,
\* limpiar_historial_antiguo(user, N) does nothing and returns 0 when the
\* user has at most N records; otherwise the N records written last, and
\* only they, remain, it returns the number of records deleted, and the
\* records of other users are as they were.
C22_Retencion ==
    (Salida("limpiar_historial_antiguo") /\ ~unidad.falla_query /\ unidad.fallas = {})
    => LET antes == DeUsuario(unidad.items, "u1")
           despues == DeUsuario(unidad.sal.items, "u1")
           N == unidad.mantener_ultimos
       IN /\ Len(antes) <= N => (unidad.sal.valor = 0 /\ unidad.sal.items = unidad.items)
          /\ Len(antes) > N
                => /\ despues = Ultimos_escritos(antes, N)
                   /\ unidad.sal.valor = Len(antes) - N
          /\ DeUsuario(unidad.sal.items, "u9") = DeUsuario(unidad.items, "u9")

\* ---- the order of the steps of a request (req.traza)
Pasos(paso) == {i \in 1..Len(req.traza) : req.traza[i] = paso}
Antes(paso, otro) == {i \in Pasos(paso) : \A j \in Pasos(otro) : i < j}

\* what the validation of each handler lets through
PeticionValida ==
    /\ req.cuerpo = "json"
    /\ IF Consultar
       THEN /\ validar_email(req.correo)
            /\ req.contexto \in ConfigAcademico_CONTEXTOS_DISPONIBLES
            /\ req.mensaje \in {"hola"}
       ELSE /\ req.mensaje \in {"   ", "hola", "largo"}
            /\ req.contexto \in ConfigSalud_CONTEXTOS_DISPONIBLES

\* completion calls come after the validation, of a request that passed it;
\* the write comes last, after a completion call that returned
OrdenTrasValidar ==
    /\ Pasos("llm") # {} => (PeticionValida /\ Pasos("validado") # {})
    /\ Antes("llm", "validado") = {}
    /\ Antes("put", "validado") = {}
    /\ \A i \in Pasos("put") :
          /\ i = Len(req.traza)
          /\ \E j \in Pasos("llm") : j < i
          /\ req.respuesta_agente # Ausente

C24_TopeDelMensaje ==
    (req.pc # "libre" /\ req.cuerpo = "json" /\ len(req.mensaje) > LIMITE_MENSAJE)
    => /\ Pasos("llm") = {}
       /\ req.llamadas = 0
       /\ Fin => req.respuesta.statusCode # 200

\* C25 (as the spec states it): when the completion call made for the
\* summary fails, the InteractionRecord that agente_consultar stores carries
\* the template built from the first characters of the user's message.
C25_ResumenDePlantilla ==
    (Salida("guardar") /\ unidad.handler = "agente_consultar"
        /\ unidad.proveedor = "error" /\ ~unidad.falla)
    => \E i \in 1..Len(unidad.sal.items) :
          /\ unidad.sal.items[i].id = unidad.u
          /\ unidad.sal.items[i].texto = "plantilla-del-mensaje"

\* C26 (as the spec states it): the prior turns in the message list of the
\* academic handler are the 5 newest of the records it loaded (all of them
\* when it loaded fewer), the loaded list being newest first.
C26_CincoTurnosMasNuevos ==
    Salida("turnos_previos")
    => LET h == unidad.sal.historial_previo
           m == unidad.sal.mensajes
           k == IF Len(h) > ULTIMOS_MENSAJES THEN ULTIMOS_MENSAJES ELSE Len(h)
       IN /\ Len(m) = k + 2
          /\ {m[i].content : i \in 2..(Len(m) - 1)} = {h[i].texto : i \in 1..k}

\* C27 (as the spec states it): with no store fault, a handler that looks
\* the user up by email answers 404 only when no User record has that
\* email, however many other User records the table holds.
C27_BusquedaPorCorreo ==
    \A n \in 1..Len(bitacora) :
       (bitacora[n].op \in {"actualizarUsuario", "toggle_autorizacion"}
           /\ bitacora[n].status = 404)
       => \A i \in 1..Len(usuarios) : usuarios[i].correo # bitacora[n].dueno

\* C28 (as the spec states it): agente_consultar answers 400 only when the
\* request itself is invalid (body that does not parse, missing or invalid
\* email, unknown mode, empty or over-long message); a configuration,
\* store, resolver or provider failure while it serves a valid request is
\* answered 404, 403 or 500, never 400.
C28_SoloPeticionInvalida ==
    (Fin /\ Consultar /\ req.respuesta.statusCode = 400) => ~PeticionValida

\* the User record of the request's email, as the table holds it now
NoAutorizadoAhora ==
    \E i \in 1..Len(usuarios) :
       usuarios[i].correo = req.correo /\ ~autorizado(usuarios[i])

\* C29 (as the spec states it): under any interleaving of a request to
\* agente_consultar with toggle requests for the same user, a request that
\* is refused because the user it reads is not authorized (no store access
\* of the request having failed) is answered 403, never another status.
C29_RechazoCon403 ==
    [][ (/\ Consultar
         /\ req.pc \in {"buscar_usuario", "svc_usuario"}
         /\ req'.pc = "fin"
         /\ ~req'.falla
         /\ NoAutorizadoAhora)
        => req'.respuesta.statusCode = 403 ]_vars

\* ============================================ requests that run concurrently
\* toggle_autorizacion and actualizarUsuario both read the User item and
\* then write it whole with put_item; between the read and the write of one
\* request the store serves the other.  One action per store call.

UsuariosConcurrencia ==
    {<<UsuarioA("ausente")>>, <<update(UsuarioA("true"), [nombre |-> "N1"])>>}

Peticion(op, correo, autorizacion, parte) ==
    [op |-> op, correo |-> correo, autorizacion |-> autorizacion, parte |-> parte,
     pc |-> "inicio", usuario |-> Ninguno, status |-> 0]

Toggles ==
    {Peticion("toggle_autorizacion", c, a, Ninguno) :
        c \in {"a@b.com", "c@d.com"}, a \in {"true", "false"}}

Actualizaciones ==
    {Peticion("actualizarUsuario", c, Ausente, Algun(parte)) :
        c \in {"a@b.com", "c@d.com"},
        parte \in {[nombre |-> "N2"], [nombre |-> "N3", contrasena |-> "h2"]}}

\* two requests, one of them at least a toggle
InitConcurrencia ==
    /\ usuarios \in UsuariosConcurrencia
    /\ usuarios_salud = <<>>
    /\ historial = <<>>
    /\ memoria = <<>>
    /\ entorno = {"GEMINI_API_KEY", "AWS_ACCOUNT_ID"}
    /\ usados = {}
    /\ req = Libre
    /\ unidad = SinUnidad
    /\ tablas = TablasVacias
    /\ bitacora = <<>>
    /\ \E p1 \in Toggles, p2 \in Toggles \cup Actualizaciones :
          procesos = [tabla0 |-> usuarios, de |-> <<p1, p2>>]

Avanzar(p, q) ==
    /\ procesos' = [procesos EXCEPT !.de[p] = q]
    /\ UNCHANGED <<usuarios_salud, historial, memoria, entorno, usados, req, unidad,
                   tablas, bitacora>>

Acabar(q, status) == [q EXCEPT !.pc = "fin", !.status = status]

\* toggle_autorizacion.py:28-58: validation, user lookup, 404
C_toggle_leer ==
    \E p \in DOMAIN procesos.de :
       LET q == procesos.de[p]
           usuario == get_usuario_por_correo(usuarios, q.correo, {})
       IN /\ q.op = "toggle_autorizacion" /\ q.pc = "inicio"
          /\ Avanzar(p, IF falsy(q.correo) \/ ~validar_email(q.correo)
                        THEN Acabar(q, 400)
                        ELSE IF q.autorizacion \notin {"true", "false"}
                        THEN Acabar(q, 400)
                        ELSE IF usuario = Ninguno THEN Acabar(q, 404)
                        ELSE [q EXCEPT !.pc = "leido", !.usuario = usuario])
          /\ usuarios' = usuarios

\* toggle_autorizacion.py:60-84: set the flag in the item that was read,
\* write the item
C_toggle_escribir ==
    \E p \in DOMAIN procesos.de, falla_put \in BOOLEAN :
       LET q == procesos.de[p]
           w == actualizar_usuario(usuarios,
                    [q.usuario[1] EXCEPT !.autorizacion = q.autorizacion], falla_put)
       IN /\ q.op = "toggle_autorizacion" /\ q.pc = "leido"
          /\ usuarios' = w.items
          /\ Avanzar(p, Acabar(q, IF w.valor THEN 200 ELSE 500))

\* actualizarUsuario.py handler, step 1: the body, the user lookup, 404
C_actualizar_leer ==
    \E p \in DOMAIN procesos.de :
       LET q == procesos.de[p]
           b == obtener_usuario_por_correo(usuarios, q.correo, FALSE)
       IN /\ q.op = "actualizarUsuario" /\ q.pc = "inicio"
          /\ Avanzar(p, IF falsy(q.correo) THEN Acabar(q, 400)
                        ELSE IF b.usuario = Ninguno THEN Acabar(q, 404)
                        ELSE [q EXCEPT !.pc = "leido", !.usuario = b.usuario])
          /\ usuarios' = usuarios

\* actualizarUsuario.py handler, step 2 and the response, for a body that
\* carries the sub-resource usuario only
C_actualizar_escribir ==
    \E p \in DOMAIN procesos.de, falla \in BOOLEAN :
       LET q == procesos.de[p]
           p2 == actualizar_parte_usuario(usuarios, q.usuario[1], q.correo, q.parte,
                                          falla)
       IN /\ q.op = "actualizarUsuario" /\ q.pc = "leido"
          /\ usuarios' = p2.items
          /\ Avanzar(p, Acabar(q, IF p2.excepcion THEN 500
                                  ELSE IF p2.hecho THEN 200 ELSE 400))

NextConcurrencia ==
    \/ C_toggle_leer
    \/ C_toggle_escribir
    \/ C_actualizar_leer
    \/ C_actualizar_escribir

SpecConcurrencia == InitConcurrencia /\ [][NextConcurrencia]_vars

\* the Users table after the whole handler of a request has run on it alone
Aplicar(q, usrs) ==
    IF q.op = "toggle_autorizacion"
    THEN toggle_autorizacion(usrs, "json", q.correo, q.autorizacion, {}, FALSE).items
    ELSE actualizarUsuario(usrs, TablasVacias,
                           [cuerpo |-> "json", correo |-> q.correo, usuario |-> q.parte,
                            datos_academicos |-> Ninguno, datos_emocionales |-> Ninguno,
                            datos_socioeconomicos |-> Ninguno],
                           1, "ninguna").usuarios

EnSerie(primero, segundo) ==
    Aplicar(procesos.de[segundo], Aplicar(procesos.de[primero], procesos.tabla0))

AmbasCompletas ==
    /\ Len(procesos.de) = 2
    /\ \A p \in 1..2 : procesos.de[p].pc = "fin" /\ procesos.de[p].status = 200

\* C30 (as the spec states it): when a toggle runs concurrently with a
\* profile update or with another toggle for the same user and both
\* complete, no update is lost: the stored User record is the one some
\* serial execution of the two requests leaves.
C30_SinActualizacionPerdida ==
    (AmbasCompletas /\ procesos.de[1].correo = procesos.de[2].correo)
    => usuarios \in {EnSerie(1, 2), EnSerie(2, 1)}

====
